---- MODULE Spec2Model ----
(***************************************************************************)
(* Connection and session lifecycle of easy-mcp-use.                       *)
(*                                                                         *)
(* Part 1: ConnectionManager (task_managers/base.ts, src/unnamed/part_004) *)
(* Part 2: MCPClient (client.ts, src/src/logging.ts 249-493) and           *)
(*         ServerManager (src/src/agents/server_manager.ts)                *)
(*                                                                         *)
(* JavaScript scheduling: one thread; an async function runs synchronously *)
(* up to its first await; continuations of a settled promise are           *)
(* microtasks that run in registration order before any new macrotask      *)
(* (an I/O completion or a fresh external call).                           *)
(***************************************************************************)
EXTENDS Integers, Sequences, FiniteSets, TLC

\* ------------------------------------------------------------------ bounds
MaxCalls == 4          \* start()/stop() calls issued on the ConnectionManager

MaxTasks == 2          \* asynchronous Client/ServerManager operations started
MaxSessions == 2       \* MCPSession objects constructed

MaxOps == 3            \* connect()/initialize()/disconnect() calls on one connector

CallIds == 1..MaxCalls
TaskIds == 1..MaxTasks
SessIds == 1..MaxSessions
OpIds == 1..MaxOps

MaxSops == 3           \* calls on one MCPSession
SopIds == 1..MaxSops

MaxRuns == 2           \* calls of adapter tools
RunIds == 1..MaxRuns

MaxFetches == 2        \* tool fetches per server that are told apart

TickMs == 10           \* the step of the clock, in milliseconds
ShortTimeoutMs == 20   \* a connection timeout that a caller passes

\* MockSseClientContext.__aenter__: the delay of the connection (sse.ts:29)
ConnectDelayMs == 50
\* SseConnectionManager: the default of `timeout` (sse.ts:55)
DefaultTimeoutMs == 5000
Names == {"a", "b"}    \* server names used by the callers

\* Server configurations, by the keys present (config.ts:12-34), that callers
\* register with addServer: one that yields a connector and one that yields
\* none.  The url and ws_url variants come with the initial configuration
Cfgs == {{"command", "args"}, {"command"}}

\* The keys a server configuration may hold (config.ts:12-34)
Keys == {"command", "args", "ws_url", "url", "env"}

VARIABLES
  \* ---- ConnectionManager fields (part_004:13-17)
  connection,          \* 0 = null, else the id of the attempt that produced it
  isReady,
  error,               \* <<"none",0>> = null, <<"connect",p>>, <<"close",d>>
  connectPromise,      \* 0 = null, else id of the start() call whose IIFE it is
  disconnectPromise,   \* 0 = null, else id of the stop() call whose IIFE it is
  \* ---- EventEmitter: is there a listener for 'error'
  hasErrorListener,
  emitted,             \* number of 'ready' / 'close' / 'error' notifications
  \* ---- transport operations in flight
  establishing,        \* set of attempt ids with _establishConnection pending
  closing,             \* set of <<d, c>>: _closeConnection(c) pending for IIFE d
  \* ---- callers and promises
  calls,               \* per call: kind, pc, waitsOn, result
  outcome,             \* per IIFE promise: <<"none">>, <<"pending">>, settled
  awaiting,            \* stop() calls suspended at `await this.connectPromise`
  microtasks,          \* continuations ready to run, FIFO
  nCalls,
  \* ---- observation of the run (not program state)
  atIssue,             \* per call: transport operations in flight when issued
  closeCalls,          \* per connection: <<d, ...>> IIFEs that invoked close on it
  \* ---- MCPClient fields (logging.ts:261-263)
  mcpServers,          \* config.mcpServers: name -> configuration (its keys)
  sessions,            \* name -> session id, 0 = no entry
  activeSessions,      \* array of names
  \* ---- MCPSession / connector objects constructed so far
  sess,                \* per session id: connector state
  nSess,
  \* ---- ServerManager fields (server_manager.ts:24-26)
  activeServer,        \* "" = null
  serverToolsCache,    \* name -> "none" | "tools" | "empty"
  fetches,             \* observation: per name, loadToolsForConnector calls so far
  \* ---- asynchronous operations
  tasks,
  nTasks,
  \* ---- history
  undisturbed,         \* closeAllSessions calls in flight during which no session
                       \* has been registered
  \* ---- one connector (part_002, part_006:19-23)
  cnKind,              \* "stdio" | "ws" | "http": the subclass
  connector,           \* its fields
  ops,                 \* the calls made on it
  nOps,
  procEvents,          \* per connect() call, the child process events delivered
  \* ---- history
  log,                 \* the calls and their settlements, in order
  \* ---- WebSocketConnectionManager (part_000:13-16)
  ws,                  \* 0 = null, else the attempt whose socket it holds
  sock,                \* per attempt, the state of the socket it created
  \* ---- SseConnectionManager (sse.ts:46-50)
  timeout,             \* the connection timeout, in milliseconds
  sseCtx,              \* is there a context (FALSE = null)
  elapsed,             \* per attempt, the time since __aenter__() was called
  \* ---- one MCPSession over the connector (README.md:324-333)
  session,             \* its fields autoConnect and tools
  sops,                \* the calls made on it
  nSops,
  fetched,             \* the list held by the connector's _tools when it is set
  \* ---- history
  returned,            \* the list that the most recent listTools() resolved with
  \* ---- the tools of the LangChainAdapter (langchain_adapter.ts:105-162)
  runs,                \* per _call of an adapter tool: its position and outcome
  nRuns,
  remote               \* per connector call: the CallToolResult it resolved with

cmVars == <<connection, isReady, error, connectPromise, disconnectPromise,
            hasErrorListener, emitted, establishing, closing, calls, outcome,
            awaiting, microtasks, nCalls, atIssue, closeCalls>>

clVars == <<mcpServers, sessions, activeSessions, sess, nSess, activeServer,
            serverToolsCache, fetches, tasks, nTasks, undisturbed>>

cnVars == <<cnKind, connector, ops, nOps, procEvents, log>>

wsVars == <<ws, sock>>

sseVars == <<timeout, sseCtx, elapsed>>

ssVars == <<session, sops, nSops, fetched, returned>>

adVars == <<runs, nRuns, remote>>

vars == <<cmVars, clVars, cnVars, wsVars, sseVars, ssVars, adVars>>

NoError == <<"none", 0>>
NoCall == [kind |-> "none", pc |-> "idle", waitsOn |-> 0, result |-> <<"none">>]

InitCM ==
  /\ connection = 0
  /\ isReady = FALSE
  /\ error = NoError
  /\ connectPromise = 0
  /\ disconnectPromise = 0
  /\ hasErrorListener \in BOOLEAN
  /\ emitted = [ready |-> 0, close |-> 0, error |-> 0]
  /\ establishing = {}
  /\ closing = {}
  /\ calls = [i \in CallIds |-> NoCall]
  /\ outcome = [i \in CallIds |-> <<"none">>]
  /\ awaiting = <<>>
  /\ microtasks = <<>>
  /\ nCalls = 0
  /\ atIssue = [i \in CallIds |-> [est |-> {}, cls |-> {}]]
  /\ closeCalls = [c \in CallIds |-> <<>>]

\* ------------------------------------------------------- ConnectionManager

\* EventEmitter.emit(ev, ...): Node throws the emitted error when 'error' is
\* emitted and no listener is registered for it; other events never throw.
EmitThrows(ev) == ev = "error" /\ ~hasErrorListener

Emit(ev) == emitted' = [emitted EXCEPT ![ev] = @ + 1]

\* The promise p settles with outcome o: callers holding p observe o, and the
\* stop() calls suspended on p are queued as microtasks in registration order.
SettleCalls(p, o) ==
  [i \in CallIds |->
     IF calls[i].waitsOn = p /\ calls[i].pc = "pending"
       THEN [calls[i] EXCEPT !.pc = "done", !.result = o]
     ELSE IF calls[i].waitsOn = p /\ calls[i].pc = "awaitConnect"
       THEN [calls[i] EXCEPT !.pc = "resume", !.result = o]
     ELSE calls[i]]

IsWaiter(p, j) == calls[j].waitsOn = p /\ calls[j].pc = "awaitConnect"

Resumed(p) == SelectSeq(awaiting, LAMBDA j : IsWaiter(p, j))

StillAwaiting(p) == SelectSeq(awaiting, LAMBDA j : ~IsWaiter(p, j))

\* `return <promise p>` from an async function: the caller observes p's outcome.
ReturnPromise(k, p) ==
  IF outcome[p] = <<"pending">>
    THEN [kind |-> k, pc |-> "pending", waitsOn |-> p, result |-> <<"none">>]
    ELSE [kind |-> k, pc |-> "done", waitsOn |-> 0, result |-> outcome[p]]

\* `return v` from an async function
ReturnValue(k, v) ==
  [kind |-> k, pc |-> "done", waitsOn |-> 0, result |-> v]

Issue(i) ==
  /\ microtasks = <<>>
  /\ i = nCalls + 1
  /\ i <= MaxCalls
  /\ nCalls' = i
  /\ atIssue' = [atIssue EXCEPT ![i] =
                   [est |-> establishing, cls |-> {dc[1] : dc \in closing}]]

\* start(), line 42: a connection is already held
StartAlreadyConnected == connection # 0

StartDedup_NoDedup == FALSE

\* start(), line 47: a connect attempt is pending
StartDedup == connectPromise # 0

\* start(), lines 41-77, up to the await of _establishConnection()
Start(i) ==
  /\ Issue(i)
  /\ IF StartAlreadyConnected
       THEN /\ calls' = [calls EXCEPT ![i] =
                           ReturnValue("start", <<"conn", connection>>)]
            /\ UNCHANGED <<isReady, error, connectPromise, establishing, outcome>>
     ELSE IF StartDedup
       THEN /\ calls' = [calls EXCEPT ![i] =
                           ReturnPromise("start", connectPromise)]
            /\ UNCHANGED <<isReady, error, connectPromise, establishing, outcome>>
     ELSE /\ isReady' = FALSE
          /\ error' = NoError
          /\ establishing' = establishing \cup {i}
          /\ outcome' = [outcome EXCEPT ![i] = <<"pending">>]
          /\ connectPromise' = i
          /\ calls' = [calls EXCEPT ![i] =
                         [kind |-> "start", pc |-> "pending", waitsOn |-> i,
                          result |-> <<"none">>]]
  /\ UNCHANGED <<connection, disconnectPromise, hasErrorListener, emitted,
                 closing, awaiting, microtasks, closeCalls>>
  /\ UNCHANGED <<clVars, cnVars>>

ConnectPromiseAfterSettle_Kept == connectPromise

\* start(), line 72: the finally clause clears the stored attempt
ConnectPromiseAfterSettle == 0

\* start(), lines 58-63 and 71-73: _establishConnection() resolved
EstablishResolve(p) ==
  /\ microtasks = <<>>
  /\ p \in establishing
  /\ establishing' = establishing \ {p}
  /\ connection' = p
  /\ isReady' = TRUE
  /\ error' = NoError
  /\ Emit("ready")
  /\ connectPromise' = ConnectPromiseAfterSettle
  /\ outcome' = [outcome EXCEPT ![p] = <<"conn", p>>]
  /\ calls' = SettleCalls(p, <<"conn", p>>)
  /\ microtasks' = microtasks \o Resumed(p)
  /\ awaiting' = StillAwaiting(p)
  /\ UNCHANGED <<disconnectPromise, hasErrorListener, closing, nCalls, atIssue,
                 closeCalls>>
  /\ UNCHANGED <<clVars, cnVars>>

\* start(), lines 64-73: _establishConnection() rejected.  emit('error') either
\* throws this.error itself (no listener) or returns and line 70 throws it.
EstablishReject(p) ==
  /\ microtasks = <<>>
  /\ p \in establishing
  /\ establishing' = establishing \ {p}
  /\ error' = <<"connect", p>>
  /\ isReady' = FALSE
  /\ connection' = 0
  /\ Emit("error")
  /\ connectPromise' = ConnectPromiseAfterSettle
  /\ outcome' = [outcome EXCEPT ![p] = <<"err", <<"connect", p>>>>]
  /\ calls' = SettleCalls(p, <<"err", <<"connect", p>>>>)
  /\ microtasks' = microtasks \o Resumed(p)
  /\ awaiting' = StillAwaiting(p)
  /\ UNCHANGED <<disconnectPromise, hasErrorListener, closing, nCalls, atIssue,
                 closeCalls>>
  /\ UNCHANGED <<clVars, cnVars>>

\* stop(), line 84: neither connected nor connecting
StopNothingToStop == connection = 0 /\ connectPromise = 0

\* stop(), line 89: a close is pending
StopDedup == disconnectPromise # 0

\* stop(), line 95: a connect attempt is pending
StopAwaitsConnect == connectPromise # 0

BeginClose_KeepsConnection(j) ==
  /\ closing' = closing \cup {<<j, connection>>}
  /\ closeCalls' = [closeCalls EXCEPT ![connection] = Append(@, j)]
  /\ connection' = connection
  /\ isReady' = FALSE
  /\ disconnectPromise' = j
  /\ outcome' = [outcome EXCEPT ![j] = <<"pending">>]
  /\ calls' = [calls EXCEPT ![j] =
                 [kind |-> "stop", pc |-> "pending", waitsOn |-> j,
                  result |-> <<"none">>]]

\* stop(), lines 113-131: the disconnect IIFE up to the await of
\* _closeConnection(connToClose), and `return this.disconnectPromise`
BeginClose(j) ==
  /\ closing' = closing \cup {<<j, connection>>}
  /\ closeCalls' = [closeCalls EXCEPT ![connection] = Append(@, j)]
  /\ connection' = 0
  /\ isReady' = FALSE
  /\ disconnectPromise' = j
  /\ outcome' = [outcome EXCEPT ![j] = <<"pending">>]
  /\ calls' = [calls EXCEPT ![j] =
                 [kind |-> "stop", pc |-> "pending", waitsOn |-> j,
                  result |-> <<"none">>]]

\* stop(), lines 106-131: nothing to close when no connection is held,
\* otherwise the close begins
StopProceed(j) ==
  IF connection = 0
    THEN /\ calls' = [calls EXCEPT ![j] = ReturnValue("stop", <<"void">>)]
         /\ UNCHANGED <<connection, isReady, disconnectPromise, closing,
                        outcome, closeCalls>>
    ELSE BeginClose(j)

\* stop(), lines 83-132, up to its first await
Stop(j) ==
  /\ Issue(j)
  /\ IF StopNothingToStop
       THEN /\ calls' = [calls EXCEPT ![j] = ReturnValue("stop", <<"void">>)]
            /\ UNCHANGED <<connection, isReady, disconnectPromise, closing,
                           outcome, awaiting, closeCalls>>
     ELSE IF StopDedup
       THEN /\ calls' = [calls EXCEPT ![j] =
                           ReturnPromise("stop", disconnectPromise)]
            /\ UNCHANGED <<connection, isReady, disconnectPromise, closing,
                           outcome, awaiting, closeCalls>>
     ELSE IF StopAwaitsConnect
       THEN /\ calls' = [calls EXCEPT ![j] =
                           [kind |-> "stop", pc |-> "awaitConnect",
                            waitsOn |-> connectPromise, result |-> <<"none">>]]
            /\ awaiting' = Append(awaiting, j)
            /\ UNCHANGED <<connection, isReady, disconnectPromise, closing,
                           outcome, closeCalls>>
     ELSE /\ StopProceed(j)
          /\ UNCHANGED awaiting
  /\ UNCHANGED <<error, connectPromise, hasErrorListener, emitted, establishing,
                 microtasks>>
  /\ UNCHANGED <<clVars, cnVars>>

\* stop(), lines 97-111 after `await this.connectPromise` settled
StopResume ==
  /\ microtasks # <<>>
  /\ LET j == Head(microtasks) IN
       /\ microtasks' = Tail(microtasks)
       /\ IF calls[j].result[1] = "err"
            THEN \* lines 98-103
                 /\ disconnectPromise' = 0
                 /\ calls' = [calls EXCEPT ![j] = ReturnValue("stop", <<"void">>)]
                 /\ UNCHANGED <<connection, isReady, closing, outcome, closeCalls>>
          ELSE StopProceed(j)
  /\ UNCHANGED <<error, connectPromise, hasErrorListener, emitted, establishing,
                 awaiting, nCalls, atIssue>>
  /\ UNCHANGED <<clVars, cnVars>>

\* stop(), lines 118-120 and 126-128: _closeConnection() resolved
CloseResolve(d) ==
  /\ microtasks = <<>>
  /\ \E c \in CallIds :
       /\ <<d, c>> \in closing
       /\ closing' = closing \ {<<d, c>>}
  /\ Emit("close")
  /\ disconnectPromise' = 0
  /\ outcome' = [outcome EXCEPT ![d] = <<"void">>]
  /\ calls' = SettleCalls(d, <<"void">>)
  /\ UNCHANGED <<connection, isReady, error, connectPromise, hasErrorListener,
                 establishing, awaiting, microtasks, nCalls, atIssue, closeCalls>>
  /\ UNCHANGED <<clVars, cnVars>>

\* stop(), lines 121-128: the result of the disconnect IIFE when
\* _closeConnection() rejected; the catch clause emits 'error'
CloseFailureOutcome(d) ==
  IF EmitThrows("error") THEN <<"err", <<"close", d>>>> ELSE <<"void">>

\* stop(), lines 121-128: _closeConnection() rejected
CloseReject(d) ==
  /\ microtasks = <<>>
  /\ \E c \in CallIds :
       /\ <<d, c>> \in closing
       /\ closing' = closing \ {<<d, c>>}
  /\ Emit("error")
  /\ disconnectPromise' = 0
  /\ outcome' = [outcome EXCEPT ![d] = CloseFailureOutcome(d)]
  /\ calls' = SettleCalls(d, CloseFailureOutcome(d))
  /\ UNCHANGED <<connection, isReady, error, connectPromise, hasErrorListener,
                 establishing, awaiting, microtasks, nCalls, atIssue, closeCalls>>
  /\ UNCHANGED <<clVars, cnVars>>

\* The abstract class: _establishConnection() and _closeConnection() are any
\* transport's, which settles them when it will
CMStart(i) == Start(i) /\ UNCHANGED <<wsVars, sseVars, ssVars, adVars>>

CMStop(j) == Stop(j) /\ UNCHANGED <<wsVars, sseVars, ssVars, adVars>>

CMEstablishResolve(p) == EstablishResolve(p) /\ UNCHANGED <<wsVars, sseVars, ssVars, adVars>>

CMEstablishReject(p) == EstablishReject(p) /\ UNCHANGED <<wsVars, sseVars, ssVars, adVars>>

CMStopResume == StopResume /\ UNCHANGED <<wsVars, sseVars, ssVars, adVars>>

CMCloseResolve(d) == CloseResolve(d) /\ UNCHANGED <<wsVars, sseVars, ssVars, adVars>>

CMCloseReject(d) == CloseReject(d) /\ UNCHANGED <<wsVars, sseVars, ssVars, adVars>>

NextCM ==
  \/ \E i \in CallIds : CMStart(i)
  \/ \E j \in CallIds : CMStop(j)
  \/ \E p \in CallIds : CMEstablishResolve(p)
  \/ \E p \in CallIds : CMEstablishReject(p)
  \/ CMStopResume
  \/ \E d \in CallIds : CMCloseResolve(d)
  \/ \E d \in CallIds : CMCloseReject(d)

\* ------------------------------------------- WebSocketConnectionManager

\* new WebSocketConnectionManager(url, headers), part_000:16-25
InitWS ==
  /\ ws = 0
  /\ sock = [p \in CallIds |-> "none"]

\* the attempt begun by this step of start(), if any
NewAttempts == establishing' \ establishing

\* start() with _establishConnection(), part_000:27-35: `new WebSocket(url)`
\* returns a connecting socket, or throws and the catch clause rejects
WsStart(i, throws) ==
  /\ Start(i)
  /\ throws => i \in NewAttempts
  /\ sock' = IF i \in NewAttempts
               THEN [sock EXCEPT ![i] = IF throws THEN "threw" ELSE "connecting"]
               ELSE sock
  /\ UNCHANGED ws
  /\ UNCHANGED <<sseVars, ssVars, adVars>>

\* start() resumes after the constructor threw, part_000:57-60
WsConstructFailed(p) ==
  /\ sock[p] = "threw"
  /\ EstablishReject(p)
  /\ sock' = [sock EXCEPT ![p] = "closed"]
  /\ UNCHANGED ws
  /\ UNCHANGED <<sseVars, ssVars, adVars>>

\* _closeConnection(connection) up to its return, part_000:64-86: an open
\* socket is asked to close and its 'close' or 'error' is awaited; for any
\* other the reference is cleared and the promise is resolved
WsAtClose == IF closing' # closing /\ sock[connection] # "open" THEN 0 ELSE ws

\* stop() with _closeConnection()
WsStop(j) ==
  /\ Stop(j)
  /\ ws' = WsAtClose
  /\ UNCHANGED sock
  /\ UNCHANGED <<sseVars, ssVars, adVars>>

\* stop() resumed with _closeConnection()
WsStopResume ==
  /\ StopResume
  /\ ws' = WsAtClose
  /\ UNCHANGED sock
  /\ UNCHANGED <<sseVars, ssVars, adVars>>

\* stop() resumes after _closeConnection() returned a resolved promise
WsClosedAtOnce(d) ==
  /\ \E c \in CallIds : <<d, c>> \in closing /\ sock[c] # "open"
  /\ CloseResolve(d)
  /\ UNCHANGED <<wsVars, sseVars, ssVars, adVars>>

\* the stop() call waiting in _closeConnection() for an event of socket p
CloseWaiters(p) == {d \in CallIds : <<d, p>> \in closing /\ sock[p] = "open"}

\* the manager after an event of socket p: `rejects` and `resolves` say
\* whether a handler called reject (part_000:45, 53) or resolve (part_000:39);
\* only the first call settles the attempt.  The handlers that
\* _closeConnection() installed (part_000:68-78) resolve the pending close
AfterEvent(p, resolves, rejects) ==
  IF p \in establishing /\ resolves THEN EstablishResolve(p)
  ELSE IF p \in establishing /\ rejects THEN EstablishReject(p)
  ELSE IF CloseWaiters(p) # {} THEN \E d \in CloseWaiters(p) : CloseResolve(d)
  ELSE UNCHANGED <<cmVars, clVars, cnVars>>

\* socket 'open', part_000:36-40
SockOpen(p) ==
  /\ sock[p] = "connecting"
  /\ microtasks = <<>>
  /\ sock' = [sock EXCEPT ![p] = "open"]
  /\ ws' = p
  /\ AfterEvent(p, TRUE, FALSE)
  /\ UNCHANGED <<sseVars, ssVars, adVars>>

\* socket 'error', part_000:42-46 and 73-78; a 'close' follows it
SockError(p) ==
  /\ sock[p] \in {"connecting", "open"}
  /\ microtasks = <<>>
  /\ sock' = [sock EXCEPT ![p] = "errored"]
  /\ ws' = 0
  /\ AfterEvent(p, FALSE, TRUE)
  /\ UNCHANGED <<sseVars, ssVars, adVars>>

\* this.ws after the 'close' handlers of socket p ran, part_000:68-72
WsAfterClose(p) == IF CloseWaiters(p) # {} THEN 0 ELSE ws

\* socket 'close', part_000:49-55 and 68-72: the handler of the establishment
\* rejects when this.ws is null
SockClose(p) ==
  /\ sock[p] \in {"connecting", "open", "errored"}
  /\ microtasks = <<>>
  /\ sock' = [sock EXCEPT ![p] = "closed"]
  /\ ws' = WsAfterClose(p)
  /\ AfterEvent(p, FALSE, ws = 0)
  /\ UNCHANGED <<sseVars, ssVars, adVars>>

NextWS ==
  \/ \E i \in CallIds, throws \in BOOLEAN : WsStart(i, throws)
  \/ \E p \in CallIds : WsConstructFailed(p)
  \/ \E j \in CallIds : WsStop(j)
  \/ WsStopResume
  \/ \E d \in CallIds : WsClosedAtOnce(d)
  \/ \E p \in CallIds : SockOpen(p)
  \/ \E p \in CallIds : SockError(p)
  \/ \E p \in CallIds : SockClose(p)

\* ------------------------------------------------- SseConnectionManager

\* new SseConnectionManager(url, headers, timeout, sseReadTimeout),
\* sse.ts:50-63
InitSSE ==
  /\ timeout \in {ShortTimeoutMs, DefaultTimeoutMs}
  /\ sseCtx = FALSE
  /\ elapsed = [p \in CallIds |-> 0]

\* start() with _establishConnection() up to `await this.sseCtx.__aenter__()`,
\* sse.ts:65-77: a new context is stored and entered
SseStart(i) ==
  /\ Start(i)
  /\ sseCtx' = IF i \in NewAttempts THEN TRUE ELSE sseCtx
  /\ UNCHANGED <<timeout, elapsed>>
  /\ UNCHANGED <<wsVars, ssVars, adVars>>

\* time passes while __aenter__() is pending (sse.ts:29); nothing in the
\* manager or the context runs on it
Tick(p) ==
  /\ p \in establishing
  /\ elapsed[p] < ConnectDelayMs
  /\ elapsed' = [elapsed EXCEPT ![p] = @ + TickMs]
  /\ UNCHANGED <<timeout, sseCtx>>
  /\ UNCHANGED <<cmVars, clVars, cnVars, wsVars, ssVars, adVars>>

\* __aenter__() resolved with the streams after its delay, sse.ts:29-34,
\* 77-79, and start() resumes
SseEntered(p) ==
  /\ elapsed[p] >= ConnectDelayMs
  /\ EstablishResolve(p)
  /\ UNCHANGED <<sseVars, ssVars, adVars>>
  /\ UNCHANGED <<wsVars, ssVars, adVars>>

\* stop() with _closeConnection() up to `await this.sseCtx.__aexit__()`,
\* sse.ts:87-92
SseStop(j) ==
  /\ Stop(j)
  /\ UNCHANGED <<sseVars, ssVars, adVars>>
  /\ UNCHANGED <<wsVars, ssVars, adVars>>

\* stop() resumed with _closeConnection()
SseStopResume ==
  /\ StopResume
  /\ UNCHANGED <<sseVars, ssVars, adVars>>
  /\ UNCHANGED <<wsVars, ssVars, adVars>>

\* _closeConnection(), sse.ts:92-102: __aexit__() settled, or there was no
\* context; the context is cleared and stop() resumes
SseExited(d) ==
  /\ CloseResolve(d)
  /\ sseCtx' = FALSE
  /\ UNCHANGED <<timeout, elapsed>>
  /\ UNCHANGED <<wsVars, ssVars, adVars>>

NextSSE ==
  \/ \E i \in CallIds : SseStart(i)
  \/ \E p \in CallIds : Tick(p)
  \/ \E p \in CallIds : SseEntered(p)
  \/ \E j \in CallIds : SseStop(j)
  \/ SseStopResume
  \/ \E d \in CallIds : SseExited(d)

\* ------------------------------------------------------------- MCPClient

\* `name` is an observation: the server name the session was created for
NoSession == [made |-> FALSE, connected |-> FALSE, hasClient |-> FALSE,
              clientOpen |-> FALSE, tools |-> FALSE, name |-> ""]
\* `res` is the set of names a result carries, `listing` the text listServers
\* has built so far, `snap` the serverNames it took at the call
NoTask == [op |-> "none", pc |-> "idle", name |-> "", auto |-> FALSE, sid |-> 0,
           kind |-> "none", cleanup |-> FALSE, todo |-> <<>>, res |-> {},
           listing |-> <<>>, snap |-> <<>>, result |-> "none"]

\* new MCPClient(config), logging.ts:261-267: no sessions; and a new
\* ServerManager, server_manager.ts:24-32
InitRegistry ==
  /\ sessions = [n \in Names |-> 0]
  /\ activeSessions = <<>>
  /\ sess = [x \in SessIds |-> NoSession]
  /\ nSess = 0
  /\ activeServer = ""
  /\ serverToolsCache = [n \in Names |-> "none"]
  /\ fetches = [n \in Names |-> 0]
  /\ tasks = [t \in TaskIds |-> NoTask]
  /\ nTasks = 0
  /\ undisturbed = {}

\* new MCPClient(config): the registry is the given config
InitClient ==
  /\ mcpServers \in {<<>>, [n \in {"a"} |-> {"url"}],
                     [n \in Names |-> IF n = "a" THEN {"command", "args"} ELSE {"ws_url"}]}
  /\ InitRegistry

\* The enumerations of a set of keys.  Object.keys() lists them in insertion
\* order, which the model does not record: every order is considered
Orderings(S) ==
  {q \in [1..Cardinality(S) -> S] : \A i, j \in 1..Cardinality(S) : q[i] = q[j] => i = j}

ServerNames_All == Names

\* getServerNames(), logging.ts:325-327, as a set
ServerNames == DOMAIN mcpServers

\* `name in this.config.mcpServers`
HasServer(n) == n \in DOMAIN mcpServers

\* this.config.mcpServers[name]: undefined (no keys) for a missing name
CfgOf(n) == IF HasServer(n) THEN mcpServers[n] ELSE {}

DeleteServer_Keeps(n) == mcpServers

\* delete this.config.mcpServers[name]
DeleteServer(n) == [m \in (DOMAIN mcpServers) \ {n} |-> mcpServers[m]]

\* this.activeSessions.indexOf(name), 0 = not found (JavaScript -1)
IndexOf(seq, n) ==
  IF \E k \in 1..Len(seq) : seq[k] = n
    THEN CHOOSE k \in 1..Len(seq) : seq[k] = n /\ \A m \in 1..(k - 1) : seq[m] # n
    ELSE 0

SpliceName_Kept(seq, n) == seq

\* index > -1 ? this.activeSessions.splice(index, 1)
SpliceName(seq, n) ==
  LET k == IndexOf(seq, n) IN
    IF k = 0 THEN seq
    ELSE [m \in 1..(Len(seq) - 1) |-> IF m < k THEN seq[m] ELSE seq[m + 1]]

PutServer_Alone(n, c) == [m \in {n} |-> c]

\* this.config.mcpServers[name] = serverConfig, logging.ts:298
PutServer(n, c) ==
  [m \in (DOMAIN mcpServers) \cup {n} |-> IF m = n THEN c ELSE mcpServers[m]]

\* addServer(name, serverConfig), logging.ts:294-300
AddServer(n, c) ==
  /\ mcpServers' = PutServer(n, c)
  /\ UNCHANGED <<sessions, activeSessions, sess, nSess, activeServer,
                 serverToolsCache, fetches, tasks, nTasks>>
  /\ UNCHANGED undisturbed
  /\ UNCHANGED <<cmVars, cnVars, wsVars, sseVars, ssVars, adVars>>

ConnectorKind_UrlFirst(c) ==
  IF "command" \in c /\ "args" \in c THEN "stdio"
  ELSE IF "url" \in c THEN "http"
  ELSE IF "ws_url" \in c THEN "ws"
  ELSE "none"

\* createConnectorFromConfig, config.ts:84-119: the connector variant by the
\* keys present; "none" = throws 'Cannot determine connector type'
ConnectorKind(c) ==
  IF "command" \in c /\ "args" \in c THEN "stdio"
  ELSE IF "ws_url" \in c THEN "ws"
  ELSE IF "url" \in c THEN "http"
  ELSE "none"

StartTask(t) ==
  /\ t = nTasks + 1
  /\ t <= MaxTasks
  /\ nTasks' = t

ServerFound_Always(n) == TRUE

\* createSession(), logging.ts:343-352: the server-not-found test
ServerFound(n) == HasServer(n)

\* createSession(), logging.ts:341-367, up to `await client.connect(transport)`:
\* the task record after the synchronous part
CsBegin(task, n, auto) ==
  IF ~ServerFound(n)
    THEN [task EXCEPT !.name = n, !.auto = auto, !.pc = "cs_failed",
                      !.result = "serverNotFound"]
  ELSE IF ConnectorKind(CfgOf(n)) = "none"
    THEN [task EXCEPT !.name = n, !.auto = auto, !.pc = "cs_failed",
                      !.result = "connectorError"]
  ELSE [task EXCEPT !.name = n, !.auto = auto, !.pc = "cs_connect",
                    !.kind = ConnectorKind(CfgOf(n)), !.result = "none"]

RegisterSessions_Dropped(n, x) == sessions

\* createSession(), logging.ts:399-403: register the session
RegisterSessions(n, x) == [sessions EXCEPT ![n] = x]

RegisterActive_Always(n) == Append(activeSessions, n)

RegisterActive(n) ==
  IF IndexOf(activeSessions, n) # 0 THEN activeSessions
  ELSE Append(activeSessions, n)

\* A finished operation: what its caller got back
Done(task, r) == [NoTask EXCEPT !.pc = "done", !.result = r]

\* createAllSessions(), logging.ts:417-427: the loop calls createSession for
\* the next name; a createSession that throws at once is caught and skipped
RECURSIVE CreateAllLoop(_)
CreateAllLoop(task) ==
  IF task.todo = <<>> THEN [Done(task, "okAll") EXCEPT !.res = task.res]
  ELSE LET rest == [task EXCEPT !.todo = Tail(task.todo)]
           b == CsBegin(rest, Head(task.todo), task.auto)
       IN IF b.pc = "cs_failed" THEN CreateAllLoop(rest) ELSE b

\* adapter.loadToolsForConnector(connector), langchain_adapter.ts:71-171: the
\* connector's tool list converted, or [] when getTools() throws because the
\* connector holds no tool list (part_006:137-144).  A fetched list is taken
\* to be non-empty and convertible
LoadTools(ss, x) == IF ss[x].tools THEN "tools" ELSE "empty"

\* One more loadToolsForConnector call made for server n
Fetch(f, n) == [f EXCEPT ![n] = IF @ < MaxFetches THEN @ + 1 ELSE @]

CacheMisses_Always(cache, n) == TRUE

\* `!this.serverToolsCache[name]`, server_manager.ts:106, 179: true only for
\* a missing entry, an empty array is truthy
CacheMisses(cache, n) == cache[n] = "none"

\* connectToServer(), server_manager.ts:175-187: mark active, then make sure
\* the tool cache has an entry.  `!this.serverToolsCache[name]` is true only
\* for a missing entry: an empty array is truthy
Activate(t, task, ss) ==
  /\ activeServer' = task.name
  /\ serverToolsCache' =
       IF CacheMisses(serverToolsCache, task.name)
         THEN [serverToolsCache EXCEPT ![task.name] = LoadTools(ss, task.sid)]
         ELSE serverToolsCache
  /\ fetches' = IF CacheMisses(serverToolsCache, task.name) THEN Fetch(fetches, task.name) ELSE fetches
  /\ tasks' = [tasks EXCEPT ![t] = Done(task, "connected")]

\* listServers(), server_manager.ts:137-142: the `Tools:` line for a tool list
ToolsLine(v) == IF v = "tools" THEN "names" ELSE "unavailable"

\* listServers(), server_manager.ts:94-97: the line of server n with its
\* ACTIVE marker; the tools line follows once the tools are known
Entry(n) == [name |-> n, active |-> n = activeServer, tools |-> "pending"]

\* the tools line added under the entry written last
WithTools(listing, line) == [listing EXCEPT ![Len(listing)].tools = line]

ListAborts_OnFailure(created) == ~created

\* listServers(), server_manager.ts:114-121: the error of createSession is
\* caught and logged, the listing goes on
ListAborts(created) == FALSE

\* listServers() returns the text built so far
Listed(task) == [Done(task, "listed") EXCEPT !.listing = task.listing, !.snap = task.snap]

\* listServers(), server_manager.ts:93-149: the loop from the next name on, up
\* to the first createSession that has to wait or to the end.  The result is
\* the task record with the tool cache and the fetch counts it leaves
RECURSIVE ListLoop(_, _, _, _, _)
ListLoop(task, cache, f, reg, ss) ==
  IF task.todo = <<>>
    THEN [task |-> Listed(task), cache |-> cache, f |-> f]
  ELSE LET n == Head(task.todo)
           rest == [task EXCEPT !.todo = Tail(task.todo),
                                !.listing = Append(task.listing, Entry(n))]
           line(v) == [rest EXCEPT !.listing = WithTools(@, ToolsLine(v))]
       IN IF ~CacheMisses(cache, n)
            THEN ListLoop(line(cache[n]), cache, f, reg, ss)
          ELSE IF reg[n] # 0
            THEN LET v == LoadTools(ss, reg[n]) IN
                   ListLoop(line(v), [cache EXCEPT ![n] = v], Fetch(f, n), reg, ss)
          ELSE LET b == CsBegin(rest, n, TRUE) IN
                 IF b.pc = "cs_failed" /\ ListAborts(FALSE)
                   THEN [task |-> Listed(rest), cache |-> cache, f |-> f]
                 ELSE IF b.pc = "cs_failed"
                   THEN ListLoop(line("none"), cache, f, reg, ss)
                 ELSE [task |-> b, cache |-> cache, f |-> f]

\* listServers(), server_manager.ts:111-135, after createSession settled: the
\* tools of a created session are fetched and cached without another look at
\* the cache, a failure leaves the tool list empty; then the loop goes on
ListResumed(task, ok, ss) ==
  IF ok
    THEN LET v == LoadTools(ss, task.sid) IN
           ListLoop([task EXCEPT !.listing = WithTools(@, ToolsLine(v))],
                    [serverToolsCache EXCEPT ![task.name] = v],
                    Fetch(fetches, task.name),
                    [sessions EXCEPT ![task.name] = task.sid], ss)
  ELSE IF ListAborts(FALSE)
    THEN [task |-> Listed(task), cache |-> serverToolsCache, f |-> fetches]
  ELSE ListLoop([task EXCEPT !.listing = WithTools(@, ToolsLine("none"))],
                serverToolsCache, fetches, sessions, ss)

\* The caller of createSession resumes: the plain call returns, the loop of
\* createAllSessions (logging.ts:418-425) goes on, connectToServer
\* (server_manager.ts:172-191) activates or resets the active server,
\* listServers (server_manager.ts:111-135) fetches the tools and goes on
AfterCreateSession(t, task, ok, ss) ==
  CASE task.op = "createSession" ->
         /\ tasks' = [tasks EXCEPT ![t] = Done(task, IF ok THEN "ok" ELSE task.result)]
         /\ UNCHANGED <<activeServer, serverToolsCache, fetches>>
    [] task.op = "createAllSessions" ->
         /\ tasks' = [tasks EXCEPT ![t] =
                        CreateAllLoop([task EXCEPT !.res = IF ok THEN @ \cup {task.name} ELSE @])]
         /\ UNCHANGED <<activeServer, serverToolsCache, fetches>>
    [] task.op = "connectToServer" ->
         IF ok THEN Activate(t, task, ss)
         ELSE /\ activeServer' = ""
              /\ tasks' = [tasks EXCEPT ![t] = Done(task, "failed")]
              /\ UNCHANGED <<serverToolsCache, fetches>>
    [] task.op = "listServers" ->
         LET r == ListResumed(task, ok, ss) IN
           /\ tasks' = [tasks EXCEPT ![t] = r.task]
           /\ serverToolsCache' = r.cache
           /\ fetches' = r.f
           /\ UNCHANGED activeServer

\* createSession(name, autoInitialize) called by a user of the client
CreateSession(t, n, auto) ==
  /\ StartTask(t)
  /\ LET b == CsBegin([NoTask EXCEPT !.op = "createSession"], n, auto) IN
       IF b.pc = "cs_failed" THEN AfterCreateSession(t, b, FALSE, sess)
       ELSE tasks' = [tasks EXCEPT ![t] = b] /\ UNCHANGED <<activeServer, serverToolsCache, fetches>>
  /\ UNCHANGED <<mcpServers, sessions, activeSessions, sess, nSess>>
  /\ UNCHANGED undisturbed
  /\ UNCHANGED <<cmVars, cnVars, wsVars, sseVars, ssVars, adVars>>

\* createAllSessions(autoInitialize), logging.ts:408-428
CreateAllSessions(t, auto) ==
  /\ StartTask(t)
  /\ \E serverNames \in Orderings(DOMAIN mcpServers) :
       tasks' = [tasks EXCEPT ![t] =
                   CreateAllLoop([NoTask EXCEPT !.op = "createAllSessions", !.auto = auto,
                                                !.todo = serverNames])]
  /\ UNCHANGED <<mcpServers, sessions, activeSessions, sess, nSess, activeServer,
                 serverToolsCache, fetches>>
  /\ UNCHANGED undisturbed
  /\ UNCHANGED <<cmVars, cnVars, wsVars, sseVars, ssVars, adVars>>

\* new MCPSession(connector) after client.connect(transport) resolved
\* (logging.ts:357-379): BaseConnector fields of part_006:20-23
NewSession == [made |-> TRUE, connected |-> FALSE, hasClient |-> TRUE,
               clientOpen |-> TRUE, tools |-> FALSE, name |-> ""]

\* the same, created for server n
NewSessionFor(n) == [NewSession EXCEPT !.name = n]

\* connector.connect(), synchronous part: the value of _connected when it
\* returns.  HTTPConnector sets it (part_002:58-64); WebSocketConnector never
\* does (part_002:31-39); StdioConnector sets it after installing the process
\* handlers unless spawn() threw (part_002:113-163)
ConnectSetsConnected(kind, spawnThrows) ==
  CASE kind = "http" -> TRUE
    [] kind = "ws" -> FALSE
    [] kind = "stdio" -> ~spawnThrows

\* connector.connect(): may the returned promise resolve / reject.  HTTP
\* resolves at once; the WebSocket connector opens `new WebSocket("")`, which
\* cannot open; stdio resolves on 'spawn' and rejects on 'error' or when
\* spawn() threw
ConnectMayResolve(kind, connected) ==
  kind = "http" \/ (kind = "stdio" /\ connected)

ConnectMayReject(kind, connected) == kind # "http"

\* createSession(), logging.ts:399-405, then the caller resumes
CsRegister(t, task, sess1) ==
  /\ sess' = sess1
  /\ sessions' = RegisterSessions(task.name, task.sid)
  /\ activeSessions' = RegisterActive(task.name)
  /\ AfterCreateSession(t, task, TRUE, sess1)

\* createSession(), logging.ts:366-397: createTransport()/client.connect()
\* settled; on success the session is built and, with autoInitialize,
\* session.initialize() runs up to `await this.connect()` (README.md:361-367)
CsConnect(t, ok, spawnThrows) ==
  /\ tasks[t].pc = "cs_connect"
  /\ spawnThrows => ok /\ tasks[t].auto /\ tasks[t].kind = "stdio"
  /\ IF ~ok
       THEN /\ AfterCreateSession(t, [tasks[t] EXCEPT !.result = "connectError"], FALSE, sess)
            /\ UNCHANGED <<sess, nSess, sessions, activeSessions>>
     ELSE /\ nSess < MaxSessions
          /\ nSess' = nSess + 1
          /\ LET x == nSess + 1
                 task == [tasks[t] EXCEPT !.sid = x]
             IN IF ~task.auto
                  THEN CsRegister(t, task, [sess EXCEPT ![x] = NewSessionFor(task.name)])
                  ELSE /\ sess' = [sess EXCEPT ![x] =
                                     [NewSessionFor(task.name) EXCEPT !.connected =
                                        ConnectSetsConnected(task.kind, spawnThrows)]]
                       /\ tasks' = [tasks EXCEPT ![t] = [task EXCEPT !.pc = "cs_initConnect"]]
                       /\ UNCHANGED <<sessions, activeSessions, activeServer,
                                      serverToolsCache, fetches>>
  /\ UNCHANGED <<mcpServers, nTasks>>
  /\ undisturbed' = IF sessions' # sessions THEN {} ELSE undisturbed
  /\ UNCHANGED <<cmVars, cnVars, wsVars, sseVars, ssVars, adVars>>

\* BaseConnector.initialize(), part_006:112-115: the not-connected test
NotConnected(c) == ~c.hasClient \/ ~c.connected

\* the test on a session's connector
InitializeRejected(x) == NotConnected(sess[x])

\* session.initialize() after `await this.connect()` settled (README.md:
\* 365-376) inside createSession's try (logging.ts:384-396)
CsInitConnect(t, ok) ==
  /\ tasks[t].pc = "cs_initConnect"
  /\ LET task == tasks[t]
         x == task.sid
     IN /\ ok => ConnectMayResolve(task.kind, sess[x].connected)
        /\ ~ok => ConnectMayReject(task.kind, sess[x].connected)
        /\ IF ~ok \/ ~sess[x].connected \/ InitializeRejected(x)
             THEN CsRegister(t, task, sess)
             ELSE /\ tasks' = [tasks EXCEPT ![t] =
                                 [task EXCEPT !.pc = "cs_listTools", !.kind = "none"]]
                  /\ UNCHANGED <<sess, sessions, activeSessions, activeServer,
                                 serverToolsCache, fetches>>
  /\ UNCHANGED <<mcpServers, nSess, nTasks>>
  /\ undisturbed' = IF sessions' # sessions THEN {} ELSE undisturbed
  /\ UNCHANGED <<cmVars, cnVars, wsVars, sseVars, ssVars, adVars>>

\* BaseConnector.initialize() after `await this.client.listTools()` settled
\* (part_006:125-129), then discoverTools and the registration
CsListTools(t, ok) ==
  /\ tasks[t].pc = "cs_listTools"
  /\ LET task == tasks[t]
         x == task.sid
     IN CsRegister(t, task, IF ok THEN [sess EXCEPT ![x].tools = TRUE] ELSE sess)
  /\ UNCHANGED <<mcpServers, nSess, nTasks>>
  /\ undisturbed' = IF sessions' # sessions THEN {} ELSE undisturbed
  /\ UNCHANGED <<cmVars, cnVars, wsVars, sseVars, ssVars, adVars>>

ClBegin_Noop(task, n, reg, ss) == [task EXCEPT !.pc = "cl_noop"]

\* closeSession(), logging.ts:450-454 with BaseConnector.disconnect()
\* (part_006:42-47) up to its first await: the task record.  "cl_noop" = no
\* session under the name, nothing to close
ClBegin(task, n, reg, ss) ==
  IF reg[n] = 0 THEN [task EXCEPT !.pc = "cl_noop"]
  ELSE [task EXCEPT !.name = n, !.sid = reg[n], !.cleanup = ss[reg[n]].connected,
                    !.pc = "cl_disconnect"]

\* closeAllSessions(), logging.ts:477-485: closeSession for the next name of
\* the snapshot
RECURSIVE CloseAllLoop(_, _, _)
CloseAllLoop(task, reg, ss) ==
  IF task.todo = <<>> THEN Done(task, "closedAll")
  ELSE LET rest == [task EXCEPT !.todo = Tail(task.todo)]
           b == ClBegin(rest, Head(task.todo), reg, ss)
       IN IF b.pc = "cl_noop" THEN CloseAllLoop(rest, reg, ss) ELSE b

\* The caller of closeSession resumes; the close started by removeServer
\* (logging.ts:315-319) has no caller, its result is dropped
AfterCloseSession(task, reg, ss) ==
  IF task.op = "closeAllSessions" THEN CloseAllLoop(task, reg, ss)
  ELSE Done(task, IF task.op = "removeServer" THEN "removed" ELSE "closed")

\* closeSession(serverName) called by a user of the client
CloseSession(t, n) ==
  /\ StartTask(t)
  /\ LET b == ClBegin([NoTask EXCEPT !.op = "closeSession"], n, sessions, sess) IN
       tasks' = [tasks EXCEPT ![t] = IF b.pc = "cl_noop" THEN Done(b, "closed") ELSE b]
  /\ UNCHANGED <<mcpServers, sessions, activeSessions, sess, nSess, activeServer,
                 serverToolsCache, fetches>>
  /\ UNCHANGED undisturbed
  /\ UNCHANGED <<cmVars, cnVars, wsVars, sseVars, ssVars, adVars>>

\* closeAllSessions(), logging.ts:472-492, over Object.keys(this.sessions)
CloseAllSessions(t) ==
  /\ StartTask(t)
  /\ \E sessionNames \in Orderings({n \in Names : sessions[n] # 0}) :
       tasks' = [tasks EXCEPT ![t] =
                   CloseAllLoop([NoTask EXCEPT !.op = "closeAllSessions",
                                               !.todo = sessionNames], sessions, sess)]
  /\ UNCHANGED <<mcpServers, sessions, activeSessions, sess, nSess, activeServer,
                 serverToolsCache, fetches>>
  /\ undisturbed' = IF tasks'[t].pc = "done" THEN undisturbed ELSE undisturbed \cup {t}
  /\ UNCHANGED <<cmVars, cnVars, wsVars, sseVars, ssVars, adVars>>

\* _cleanupResources() and the end of disconnect(), part_006:48-50, 58-103:
\* the connector after `await this.client.close()` settled
CleanedUp_StaysConnected(c, ok) ==
  [c EXCEPT !.hasClient = FALSE, !.tools = FALSE,
            !.clientOpen = IF ok THEN FALSE ELSE @]

CleanedUp(c, ok) ==
  [c EXCEPT !.hasClient = FALSE, !.tools = FALSE, !.connected = FALSE,
            !.clientOpen = IF ok THEN FALSE ELSE @]

\* the same on a session's connector
Disconnected(ss, x, ok) == [ss EXCEPT ![x] = CleanedUp(@, ok)]

\* closeSession(), logging.ts:454-466, after `await session.disconnect()`
\* settled: whatever is registered under the name is deleted
ClDisconnect(t, ok) ==
  /\ tasks[t].pc = "cl_disconnect"
  /\ LET task == tasks[t]
         ss == IF task.cleanup THEN Disconnected(sess, task.sid, ok) ELSE sess
         reg == [sessions EXCEPT ![task.name] = 0]
     IN /\ ~task.cleanup => ok
        /\ sess' = ss
        /\ sessions' = reg
        /\ activeSessions' = SpliceName(activeSessions, task.name)
        /\ tasks' = [tasks EXCEPT ![t] = AfterCloseSession(task, reg, ss)]
  /\ UNCHANGED <<mcpServers, nSess, nTasks, activeServer, serverToolsCache, fetches>>
  /\ undisturbed' = IF tasks'[t].pc = "done" THEN undisturbed \ {t} ELSE undisturbed
  /\ UNCHANGED <<cmVars, cnVars, wsVars, sseVars, ssVars, adVars>>

\* removeServer(name), logging.ts:302-323; for an unknown name it only logs.
\* The closeSession it starts is not awaited
RemoveServer(n) ==
  /\ HasServer(n)
  /\ mcpServers' = DeleteServer(n)
  /\ activeSessions' = SpliceName(activeSessions, n)
  /\ IF sessions[n] # 0
       THEN /\ StartTask(nTasks + 1)
            /\ tasks' = [tasks EXCEPT ![nTasks + 1] =
                           ClBegin([NoTask EXCEPT !.op = "removeServer"], n, sessions, sess)]
       ELSE UNCHANGED <<tasks, nTasks>>
  /\ UNCHANGED <<sessions, sess, nSess, activeServer, serverToolsCache, fetches>>
  /\ UNCHANGED undisturbed
  /\ UNCHANGED <<cmVars, cnVars, wsVars, sseVars, ssVars, adVars>>

\* connectToServer(serverName), server_manager.ts:152-193
ConnectToServer(t, n) ==
  /\ StartTask(t)
  /\ LET task == [NoTask EXCEPT !.op = "connectToServer", !.name = n] IN
       IF ~HasServer(n)
         THEN /\ tasks' = [tasks EXCEPT ![t] =
                             [Done(task, "notFound") EXCEPT !.res = ServerNames]]
              /\ UNCHANGED <<activeServer, serverToolsCache, fetches>>
       ELSE IF activeServer = n
         THEN /\ tasks' = [tasks EXCEPT ![t] = Done(task, "already")]
              /\ UNCHANGED <<activeServer, serverToolsCache, fetches>>
       ELSE IF sessions[n] # 0
         THEN Activate(t, [task EXCEPT !.sid = sessions[n]], sess)
       ELSE LET b == CsBegin(task, n, TRUE) IN
              IF b.pc = "cs_failed" THEN AfterCreateSession(t, b, FALSE, sess)
              ELSE tasks' = [tasks EXCEPT ![t] = b] /\ UNCHANGED <<activeServer, serverToolsCache, fetches>>
  /\ UNCHANGED <<mcpServers, sessions, activeSessions, sess, nSess>>
  /\ UNCHANGED undisturbed
  /\ UNCHANGED <<cmVars, cnVars, wsVars, sseVars, ssVars, adVars>>

\* listServers(), server_manager.ts:85-150, up to its first createSession
\* that has to wait
ListServers(t) ==
  /\ StartTask(t)
  /\ \E serverNames \in Orderings(ServerNames) :
       LET task == [NoTask EXCEPT !.op = "listServers", !.auto = TRUE,
                                  !.todo = serverNames, !.snap = serverNames]
           r == IF serverNames = <<>>
                  THEN [task |-> Done(task, "noServers"), cache |-> serverToolsCache,
                        f |-> fetches]
                  ELSE ListLoop(task, serverToolsCache, fetches, sessions, sess)
       IN /\ tasks' = [tasks EXCEPT ![t] = r.task]
          /\ serverToolsCache' = r.cache
          /\ fetches' = r.f
  /\ UNCHANGED <<mcpServers, sessions, activeSessions, sess, nSess, activeServer>>
  /\ UNCHANGED undisturbed
  /\ UNCHANGED <<cmVars, cnVars, wsVars, sseVars, ssVars, adVars>>

\* getActiveServer(), server_manager.ts:195-201: what it reports
GetActiveServer == IF activeServer # "" THEN <<"active", activeServer>> ELSE <<"none">>

\* getActiveServerTools(), server_manager.ts:220-232: "empty" = []
GetActiveServerTools ==
  IF activeServer = "" THEN "empty"
  ELSE IF serverToolsCache[activeServer] = "none" THEN "empty"
  ELSE serverToolsCache[activeServer]

\* The callers (the tools of server_manager.ts:36-75) have taken the results
\* of the calls made so far, all of them finished
ResultsTaken ==
  /\ nTasks > 0
  /\ \A t \in 1..nTasks : tasks[t].pc = "done"
  /\ tasks' = [t \in TaskIds |-> NoTask]
  /\ nTasks' = 0
  /\ UNCHANGED <<mcpServers, sessions, activeSessions, sess, nSess, activeServer,
                 serverToolsCache, fetches>>
  /\ UNCHANGED undisturbed
  /\ UNCHANGED <<cmVars, cnVars, wsVars, sseVars, ssVars, adVars>>

DisconnectFromServer_Closes ==
  /\ activeServer' = ""
  /\ sessions' = [n \in Names |-> IF n = activeServer THEN 0 ELSE sessions[n]]
  /\ activeSessions' = SpliceName(activeSessions, activeServer)
  /\ UNCHANGED <<mcpServers, sess, nSess, serverToolsCache, fetches, tasks, nTasks>>
  /\ UNCHANGED undisturbed
  /\ UNCHANGED <<cmVars, cnVars, wsVars, sseVars, ssVars, adVars>>

\* disconnectFromServer(), server_manager.ts:203-217: a selection change
\* only; with no active server it returns at once
DisconnectFromServer ==
  /\ activeServer' = ""
  /\ UNCHANGED <<mcpServers, sessions, activeSessions, sess, nSess, serverToolsCache, fetches,
                 tasks, nTasks>>
  /\ UNCHANGED undisturbed
  /\ UNCHANGED <<cmVars, cnVars, wsVars, sseVars, ssVars, adVars>>

\* The operations of the MCPClient and the steps that resume them
NextClient ==
  \/ \E n \in Names, c \in Cfgs : AddServer(n, c)
  \/ \E n \in Names : RemoveServer(n)
  \/ \E t \in TaskIds, n \in Names, auto \in BOOLEAN : CreateSession(t, n, auto)
  \/ \E t \in TaskIds, auto \in BOOLEAN : CreateAllSessions(t, auto)
  \/ \E t \in TaskIds, n \in Names : CloseSession(t, n)
  \/ \E t \in TaskIds : CloseAllSessions(t)
  \/ \E t \in TaskIds, ok \in BOOLEAN, spawnThrows \in BOOLEAN : CsConnect(t, ok, spawnThrows)
  \/ \E t \in TaskIds, ok \in BOOLEAN : CsInitConnect(t, ok)
  \/ \E t \in TaskIds, ok \in BOOLEAN : CsListTools(t, ok)
  \/ \E t \in TaskIds, ok \in BOOLEAN : ClDisconnect(t, ok)

\* The operations of the ServerManager next to those of its MCPClient
NextManager ==
  \/ \E t \in TaskIds, n \in Names : ConnectToServer(t, n)
  \/ DisconnectFromServer
  \/ NextClient

\* The single-session operations of the MCPClient over a longer use: its
\* callers take the results of the finished calls and call again
NextRegistry ==
  \/ \E n \in Names, c \in Cfgs : AddServer(n, c)
  \/ \E n \in Names : RemoveServer(n)
  \/ \E t \in TaskIds, n \in Names, auto \in BOOLEAN : CreateSession(t, n, auto)
  \/ \E t \in TaskIds, n \in Names : CloseSession(t, n)
  \/ \E t \in TaskIds, ok \in BOOLEAN, spawnThrows \in BOOLEAN : CsConnect(t, ok, spawnThrows)
  \/ \E t \in TaskIds, ok \in BOOLEAN : CsInitConnect(t, ok)
  \/ \E t \in TaskIds, ok \in BOOLEAN : CsListTools(t, ok)
  \/ \E t \in TaskIds, ok \in BOOLEAN : ClDisconnect(t, ok)
  \/ ResultsTaken

\* The operations of a ServerManager alone, nothing else using its MCPClient
NextServerManager ==
  \/ \E t \in TaskIds : ListServers(t)
  \/ \E t \in TaskIds, n \in Names : ConnectToServer(t, n)
  \/ DisconnectFromServer
  \/ ResultsTaken
  \/ \E t \in TaskIds, ok \in BOOLEAN, spawnThrows \in BOOLEAN : CsConnect(t, ok, spawnThrows)
  \/ \E t \in TaskIds, ok \in BOOLEAN : CsInitConnect(t, ok)
  \/ \E t \in TaskIds, ok \in BOOLEAN : CsListTools(t, ok)

\* ------------------------------------------------------------- Connector

NoOp == [op |-> "none", pc |-> "idle", result |-> "none"]

\* new XConnector(client, ...): BaseConnector's field initialisers and
\* constructor (part_006:20-28); StdioConnector.process is unset (part_002:87)
InitConnector ==
  /\ cnKind \in {"stdio", "ws", "http"}
  /\ connector = [connected |-> FALSE, hasClient |-> TRUE, clientOpen |-> TRUE,
                  tools |-> FALSE, process |-> 0]
  /\ ops = [o \in OpIds |-> NoOp]
  /\ nOps = 0
  /\ procEvents = [o \in OpIds |-> {}]
  /\ log = <<>>

\* a call is made on the connector
CallOp(o) ==
  /\ nOps < MaxOps
  /\ o = nOps + 1
  /\ nOps' = o

\* the caller's promise settles
OpSettled(o, r) == [ops[o] EXCEPT !.pc = "done", !.result = r]

\* the history after this step: the call issued and the calls settled by it
Logged(issued) ==
  LET done == {o \in OpIds : ops[o].pc # "done" /\ ops'[o].pc = "done"}
      q == CHOOSE q \in Orderings(done) : TRUE
  IN log' = log \o issued \o [k \in 1..Cardinality(done) |-> <<"settle", q[k]>>]

\* connect().  HTTPConnector (part_002:58-64) marks the connector connected
\* and resolves.  WebSocketConnector (part_002:31-39) constructs
\* `new WebSocket("")`, which throws on the empty URL: the async function
\* rejects.  StdioConnector (part_002:113-163): spawn() throws and the
\* promise rejects, or it returns the child process, the handlers are
\* installed, _connected is set and the promise is pending
Connect(o, spawnThrows) ==
  /\ CallOp(o)
  /\ spawnThrows => cnKind = "stdio"
  /\ connector' =
       [connector EXCEPT !.connected = @ \/ ConnectSetsConnected(cnKind, spawnThrows),
                         !.process = IF cnKind = "stdio" /\ ~spawnThrows THEN o ELSE @]
  /\ ops' = [ops EXCEPT ![o] =
       CASE cnKind = "http" -> [OpSettled(o, "ok") EXCEPT !.op = "connect"]
         [] cnKind = "ws" -> [OpSettled(o, "failed") EXCEPT !.op = "connect"]
         [] cnKind = "stdio" ->
              IF spawnThrows THEN [OpSettled(o, "failed") EXCEPT !.op = "connect"]
              ELSE [op |-> "connect", pc |-> "pending", result |-> "none"]]
  /\ Logged(<< <<"connect", o>> >>)
  /\ UNCHANGED <<cnKind, procEvents>>
  /\ UNCHANGED <<cmVars, clVars, wsVars, sseVars>>

\* has spawn() of connect() call o returned a child process
Spawned(o) == ops[o].op = "connect" /\ cnKind = "stdio" /\
              (ops[o].pc = "pending" \/ ops[o].result = "ok" \/ procEvents[o] # {})

\* resolve() / reject() of connect()'s promise: only the first one counts
SettleConnect(o, r) == IF ops[o].pc = "pending" THEN OpSettled(o, r) ELSE ops[o]

\* child process 'spawn' (part_002:124-129): emitted before every other
\* event of the process, by the runtimes that emit it
ProcSpawn(o) ==
  /\ Spawned(o)
  /\ procEvents[o] = {}
  /\ procEvents' = [procEvents EXCEPT ![o] = {"spawn"}]
  /\ ops' = [ops EXCEPT ![o] = SettleConnect(o, "ok")]
  /\ Logged(<<>>)
  /\ UNCHANGED <<cnKind, connector, nOps>>
  /\ UNCHANGED <<cmVars, clVars, wsVars, sseVars>>

\* child process 'error' (part_002:131-135): the process could not be
\* spawned, killed or signalled
ProcError(o) ==
  /\ Spawned(o)
  /\ procEvents[o] \cap {"error", "close"} = {}
  /\ procEvents' = [procEvents EXCEPT ![o] = @ \cup {"error"}]
  /\ connector' = [connector EXCEPT !.process = 0]
  /\ ops' = [ops EXCEPT ![o] = SettleConnect(o, "failed")]
  /\ Logged(<<>>)
  /\ UNCHANGED <<cnKind, nOps>>
  /\ UNCHANGED <<cmVars, clVars, wsVars, sseVars>>

\* child process 'close' (part_002:141-145): the process ended and its
\* streams are closed.  The handler logs and forgets the process.  It comes
\* after 'spawn' or 'error' where the runtime emits 'spawn', and first where
\* it does not and the process started (the source names no runtime version)
ProcClose(o) ==
  /\ Spawned(o)
  /\ "close" \notin procEvents[o]
  /\ procEvents' = [procEvents EXCEPT ![o] = @ \cup {"close"}]
  /\ connector' = [connector EXCEPT !.process = 0]
  /\ UNCHANGED <<cnKind, ops, nOps, log>>
  /\ UNCHANGED <<cmVars, clVars, wsVars, sseVars>>

\* initialize(), part_006:111-125: up to `await this.client.listTools()`
Initialize(o) ==
  /\ CallOp(o)
  /\ ops' = [ops EXCEPT ![o] =
       IF NotConnected(connector)
         THEN [OpSettled(o, "notConnected") EXCEPT !.op = "initialize"]
         ELSE [op |-> "initialize", pc |-> "listTools", result |-> "none"]]
  /\ Logged(<< <<"initialize", o>> >>)
  /\ UNCHANGED <<cnKind, connector, procEvents>>
  /\ UNCHANGED <<cmVars, clVars, wsVars, sseVars>>

\* initialize(), part_006:125-129: client.listTools() settled
ListTools(o, ok) ==
  /\ ops[o].pc = "listTools"
  /\ connector' = [connector EXCEPT !.tools = IF ok THEN TRUE ELSE @]
  /\ ops' = [ops EXCEPT ![o] = OpSettled(o, IF ok THEN "ok" ELSE "failed")]
  /\ Logged(<<>>)
  /\ UNCHANGED <<cnKind, nOps, procEvents>>
  /\ UNCHANGED <<cmVars, clVars, wsVars, sseVars>>

\* disconnect(), part_006:42-49 and _cleanupResources(), part_006:58-66: up
\* to `await this.client.close()`; without a client the cleanup has nothing
\* to await (_connectionManager is never assigned)
Disconnect(o) ==
  /\ CallOp(o)
  /\ IF ~connector.connected
       THEN /\ ops' = [ops EXCEPT ![o] = [OpSettled(o, "noop") EXCEPT !.op = "disconnect"]]
            /\ UNCHANGED connector
     ELSE IF connector.hasClient
       THEN /\ ops' = [ops EXCEPT ![o] =
                         [op |-> "disconnect", pc |-> "close", result |-> "none"]]
            /\ UNCHANGED connector
     ELSE /\ ops' = [ops EXCEPT ![o] =
                       [OpSettled(o, "disconnected") EXCEPT !.op = "disconnect"]]
          /\ connector' = CleanedUp(connector, FALSE)
  /\ Logged(<< <<"disconnect", o>> >>)
  /\ UNCHANGED <<cnKind, procEvents>>
  /\ UNCHANGED <<cmVars, clVars, wsVars, sseVars>>

\* _cleanupResources(), part_006:66-103 and disconnect(), part_006:50:
\* client.close() settled
ClientClose(o, ok) ==
  /\ ops[o].pc = "close"
  /\ connector' = CleanedUp(connector, ok)
  /\ ops' = [ops EXCEPT ![o] = OpSettled(o, "disconnected")]
  /\ Logged(<<>>)
  /\ UNCHANGED <<cnKind, nOps, procEvents>>
  /\ UNCHANGED <<cmVars, clVars, wsVars, sseVars>>

\* callTool(), part_006:161-169: up to `await this.client.callTool(...)`
CallTool(o) ==
  /\ CallOp(o)
  /\ ops' = [ops EXCEPT ![o] =
       IF NotConnected(connector)
         THEN [OpSettled(o, "notConnected") EXCEPT !.op = "callTool"]
         ELSE [op |-> "callTool", pc |-> "callTool", result |-> "none"]]
  /\ Logged(<< <<"callTool", o>> >>)
  /\ UNCHANGED <<cnKind, connector, procEvents>>
  /\ UNCHANGED <<cmVars, clVars, wsVars, sseVars>>

\* callTool(), part_006:169-171: client.callTool() settled
ToolCalled(o, ok) ==
  /\ ops[o].pc = "callTool"
  /\ ops' = [ops EXCEPT ![o] = OpSettled(o, IF ok THEN "ok" ELSE "failed")]
  /\ Logged(<<>>)
  /\ UNCHANGED <<cnKind, connector, nOps, procEvents>>
  /\ UNCHANGED <<cmVars, clVars, wsVars, sseVars>>

\* The connector used directly, without a session
CnConnect(o, spawnThrows) == Connect(o, spawnThrows) /\ UNCHANGED <<ssVars, adVars>>

CnProcSpawn(o) == ProcSpawn(o) /\ UNCHANGED <<ssVars, adVars>>

CnProcError(o) == ProcError(o) /\ UNCHANGED <<ssVars, adVars>>

CnProcClose(o) == ProcClose(o) /\ UNCHANGED <<ssVars, adVars>>

CnInitialize(o) == Initialize(o) /\ UNCHANGED <<ssVars, adVars>>

CnListTools(o, ok) == ListTools(o, ok) /\ UNCHANGED <<ssVars, adVars>>

CnDisconnect(o) == Disconnect(o) /\ UNCHANGED <<ssVars, adVars>>

CnClientClose(o, ok) == ClientClose(o, ok) /\ UNCHANGED <<ssVars, adVars>>

NextConnector ==
  \/ \E o \in OpIds, spawnThrows \in BOOLEAN : CnConnect(o, spawnThrows)
  \/ \E o \in OpIds : CnProcSpawn(o)
  \/ \E o \in OpIds : CnProcError(o)
  \/ \E o \in OpIds : CnProcClose(o)
  \/ \E o \in OpIds : CnInitialize(o)
  \/ \E o \in OpIds, ok \in BOOLEAN : CnListTools(o, ok)
  \/ \E o \in OpIds : CnDisconnect(o)
  \/ \E o \in OpIds, ok \in BOOLEAN : CnClientClose(o, ok)

\* ------------------------------------------------------- LangChainAdapter

\* The content lists a tool returns: nothing, a text, a text and an image
Contents == {<<>>, <<"text">>, <<"text", "image">>}

NoResult == [isError |-> FALSE, content |-> <<>>]
NoRun == [pc |-> "idle", sub |-> 0, result |-> <<"none">>]

\* no tool of the adapter has been called
InitAdapter ==
  /\ runs = [r \in RunIds |-> NoRun]
  /\ nRuns = 0
  /\ remote = [o \in OpIds |-> NoResult]

\* parseMcpToolResult(), langchain_adapter.ts:15-58: it throws for isError,
\* returns '' for no content, else the items decoded one after another
ParseMcpToolResult(res) ==
  IF res.isError THEN <<"throw", "Tool execution failed">>
  ELSE IF res.content = <<>> THEN <<"return", <<>>>>
  ELSE <<"return", res.content>>

\* _call(), langchain_adapter.ts:134-157, after `await
\* this.toolConnector.callTool()`: a rejection is thrown again with a new
\* message; a result is parsed, and when the parsing throws the catch of
\* 143-148 returns the message as the text of the tool
RunSettled(settled, res) ==
  IF settled # "ok" THEN <<"throw", "Error executing MCP tool">>
  ELSE IF ParseMcpToolResult(res)[1] = "throw" THEN <<"return", "Error parsing result">>
  ELSE ParseMcpToolResult(res)

\* _call(arg) of an adapter tool, langchain_adapter.ts:131-139: up to the
\* await of connector.callTool()
ToolRun(r, o) ==
  /\ r = nRuns + 1
  /\ r <= MaxRuns
  /\ nRuns' = r
  /\ CallTool(o)
  /\ runs' = [runs EXCEPT ![r] = [pc |-> "callTool", sub |-> o, result |-> <<"none">>]]
  /\ UNCHANGED remote
  /\ UNCHANGED ssVars

\* client.callTool() settled for a call made by an adapter tool; a resolved
\* call carries the CallToolResult of the server
RemoteSettled(o, ok, isError, content) ==
  /\ ToolCalled(o, ok)
  /\ ~ok => ~isError /\ content = <<>>
  /\ remote' = [remote EXCEPT ![o] = [isError |-> isError, content |-> content]]
  /\ UNCHANGED <<runs, nRuns>>
  /\ UNCHANGED ssVars

\* _call() resumes after the await, langchain_adapter.ts:139-157
RunResumed(r) ==
  /\ runs[r].pc = "callTool"
  /\ ops[runs[r].sub].pc = "done"
  /\ runs' = [runs EXCEPT ![r] =
       [pc |-> "done", sub |-> runs[r].sub,
        result |-> RunSettled(ops[runs[r].sub].result, remote[runs[r].sub])]]
  /\ UNCHANGED <<nRuns, remote>>
  /\ UNCHANGED <<cmVars, clVars, cnVars, wsVars, sseVars, ssVars>>

\* The tools of a LangChainAdapter over one connector
NextAdapter ==
  \/ \E o \in OpIds, spawnThrows \in BOOLEAN : CnConnect(o, spawnThrows)
  \/ \E o \in OpIds : CnProcSpawn(o)
  \/ \E o \in OpIds : CnProcError(o)
  \/ \E o \in OpIds : CnProcClose(o)
  \/ \E r \in RunIds, o \in OpIds : ToolRun(r, o)
  \/ \E o \in OpIds, ok, isError \in BOOLEAN, content \in Contents :
       RemoteSettled(o, ok, isError, content)
  \/ \E r \in RunIds : RunResumed(r)

\* ------------------------------------------------------------ MCPSession

NoSop == [op |-> "none", pc |-> "idle", sub |-> 0, result |-> "none", ret |-> <<>>]

\* new MCPSession(connector, autoConnect), README.md:324-333, over a new
\* connector; nothing is held by _tools
InitSession ==
  /\ session \in [autoConnect : BOOLEAN, tools : {<<>>}]
  /\ sops = [s \in SopIds |-> NoSop]
  /\ nSops = 0
  /\ fetched = <<>>
  /\ returned = <<>>

\* tool lists that a server returns
ToolLists == {<<>>, <<"t1">>, <<"t1", "t2">>}

\* the session calls whose awaited connector call has settled: their
\* continuations are microtasks, which run before any other event
SReady == {s \in SopIds : sops[s].sub # 0 /\ sops[s].pc # "done" /\
                          ops[sops[s].sub].pc = "done"}

\* a call is made on the session
CallSop(s) ==
  /\ SReady = {}
  /\ nSops < MaxSops
  /\ s = nSops + 1
  /\ nSops' = s

SopDone(op, r, ret) == [op |-> op, pc |-> "done", sub |-> 0, result |-> r, ret |-> ret]

SopWaits(op, pc, o) == [op |-> op, pc |-> pc, sub |-> o, result |-> "none", ret |-> <<>>]

\* get isConnected, README.md:384-389 and isConnected(), part_006:150-152
IsConnected == connector.connected

\* the session does not touch the connector in this step
NoConnectorCall == UNCHANGED <<cmVars, clVars, cnVars, wsVars, sseVars>>

\* this._tools = toolsResult.tools, part_006:126
Fetched_Appended(old, l) == old \o l

Fetched(old, l) == l

\* connect(), README.md:349-351: up to `await this.connector.connect()`
SConnect(s, o, spawnThrows) ==
  /\ CallSop(s)
  /\ Connect(o, spawnThrows)
  /\ sops' = [sops EXCEPT ![s] = SopWaits("connect", "connect", o)]
  /\ UNCHANGED <<session, fetched, returned>>
  /\ UNCHANGED adVars

\* initialize() and callTool() from their test of the connection on,
\* README.md:369-375 and 412-417: not connected, or the call is delegated
Delegate(s, op, o) ==
  IF ~IsConnected
    THEN /\ sops' = [sops EXCEPT ![s] = SopDone(op, "notConnected", <<>>)]
         /\ NoConnectorCall
    ELSE /\ IF op = "initialize" THEN Initialize(o) ELSE CallTool(o)
         /\ sops' = [sops EXCEPT ![s] = SopWaits(op, "delegated", o)]

\* initialize() and callTool(), README.md:361-367 and 404-410: up to the
\* first await
SBegin(s, op, o, spawnThrows) ==
  /\ CallSop(s)
  /\ op \in {"initialize", "callTool"}
  /\ IF ~IsConnected /\ session.autoConnect
       THEN /\ Connect(o, spawnThrows)
            /\ sops' = [sops EXCEPT ![s] = SopWaits(op, "connect", o)]
       ELSE /\ ~spawnThrows
            /\ Delegate(s, op, o)
  /\ UNCHANGED <<session, fetched, returned>>
  /\ UNCHANGED adVars

\* `await this.connect()` settled, README.md:351-352, 366-369, 409-412
SConnected(s, o) ==
  /\ s \in SReady
  /\ sops[s].pc = "connect"
  /\ IF ops[sops[s].sub].result # "ok"
       THEN /\ sops' = [sops EXCEPT ![s] = SopDone(sops[s].op, "connectError", <<>>)]
            /\ NoConnectorCall
     ELSE IF sops[s].op = "connect"
       THEN /\ sops' = [sops EXCEPT ![s] = SopDone("connect", "ok", <<>>)]
            /\ NoConnectorCall
     ELSE Delegate(s, sops[s].op, o)
  /\ UNCHANGED <<session, nSops, fetched, returned>>
  /\ UNCHANGED adVars

\* connector.getTools(), part_006:137-144: it throws while _tools is null
GetToolsThrows == ~connector.tools

GetTools == fetched

\* discoverTools(), README.md:391-402: the result and this.tools after it
DiscoverResult ==
  IF ~IsConnected THEN [result |-> "ok", ret |-> <<>>, tools |-> session.tools]
  ELSE IF GetToolsThrows
    THEN [result |-> "notInitialized", ret |-> <<>>, tools |-> session.tools]
  ELSE [result |-> "ok", ret |-> GetTools, tools |-> GetTools]

\* `await this.connector.initialize()` / `await this.connector.callTool()`
\* settled, README.md:375-381 and 417-419; initialize() goes on with
\* discoverTools()
SDelegated(s) ==
  /\ s \in SReady
  /\ sops[s].pc = "delegated"
  /\ LET r == ops[sops[s].sub].result
         d == DiscoverResult
     IN IF r # "ok" \/ sops[s].op = "callTool"
          THEN /\ sops' = [sops EXCEPT ![s] = SopDone(sops[s].op, r, <<>>)]
               /\ UNCHANGED session
          ELSE /\ sops' = [sops EXCEPT ![s] = SopDone("initialize", d.result, <<>>)]
               /\ session' = [session EXCEPT !.tools = d.tools]
  /\ NoConnectorCall
  /\ UNCHANGED <<nSops, fetched, returned>>
  /\ UNCHANGED adVars

\* discoverTools(), README.md:391-402
SDiscoverTools(s) ==
  /\ CallSop(s)
  /\ sops' = [sops EXCEPT ![s] =
                SopDone("discoverTools", DiscoverResult.result, DiscoverResult.ret)]
  /\ session' = [session EXCEPT !.tools = DiscoverResult.tools]
  /\ NoConnectorCall
  /\ UNCHANGED <<fetched, returned>>
  /\ UNCHANGED adVars

\* disconnect(), README.md:355-357: up to `await this.connector.disconnect()`
SDisconnect(s, o) ==
  /\ CallSop(s)
  /\ Disconnect(o)
  /\ sops' = [sops EXCEPT ![s] = SopWaits("disconnect", "disconnect", o)]
  /\ fetched' = IF connector'.tools THEN fetched ELSE <<>>
  /\ UNCHANGED <<session, returned>>
  /\ UNCHANGED adVars

\* `await this.connector.disconnect()` settled, README.md:357-358
SDisconnected(s) ==
  /\ s \in SReady
  /\ sops[s].pc = "disconnect"
  /\ sops' = [sops EXCEPT ![s] = SopDone("disconnect", "ok", <<>>)]
  /\ NoConnectorCall
  /\ UNCHANGED <<session, nSops, fetched, returned>>
  /\ UNCHANGED adVars

\* the events of the connector under the session
SsProcSpawn(o) == SReady = {} /\ ProcSpawn(o) /\ UNCHANGED <<ssVars, adVars>>

SsProcError(o) == SReady = {} /\ ProcError(o) /\ UNCHANGED <<ssVars, adVars>>

SsProcClose(o) == SReady = {} /\ ProcClose(o) /\ UNCHANGED <<ssVars, adVars>>

SsListTools(o, ok, l) ==
  /\ SReady = {}
  /\ ListTools(o, ok)
  /\ ok \/ l = <<>>
  /\ fetched' = IF ok THEN Fetched(fetched, l) ELSE fetched
  /\ returned' = IF ok THEN l ELSE returned
  /\ UNCHANGED <<session, sops, nSops>>
  /\ UNCHANGED adVars

SsToolCalled(o, ok) == SReady = {} /\ ToolCalled(o, ok) /\ UNCHANGED <<ssVars, adVars>>

SsClientClose(o, ok) ==
  /\ SReady = {}
  /\ ClientClose(o, ok)
  /\ fetched' = <<>>
  /\ UNCHANGED <<session, sops, nSops, returned>>
  /\ UNCHANGED adVars

NextSession ==
  \/ \E s \in SopIds, o \in OpIds, spawnThrows \in BOOLEAN : SConnect(s, o, spawnThrows)
  \/ \E s \in SopIds, op \in {"initialize", "callTool"}, o \in OpIds,
        spawnThrows \in BOOLEAN : SBegin(s, op, o, spawnThrows)
  \/ \E s \in SopIds, o \in OpIds : SConnected(s, o)
  \/ \E s \in SopIds : SDelegated(s)
  \/ \E s \in SopIds : SDiscoverTools(s)
  \/ \E s \in SopIds, o \in OpIds : SDisconnect(s, o)
  \/ \E s \in SopIds : SDisconnected(s)
  \/ \E o \in OpIds : SsProcSpawn(o)
  \/ \E o \in OpIds : SsProcError(o)
  \/ \E o \in OpIds : SsProcClose(o)
  \/ \E o \in OpIds, ok \in BOOLEAN, l \in ToolLists : SsListTools(o, ok, l)
  \/ \E o \in OpIds, ok \in BOOLEAN : SsToolCalled(o, ok)
  \/ \E o \in OpIds, ok \in BOOLEAN : SsClientClose(o, ok)


\* A ConnectionManager alone: the client is an empty new MCPClient()
InitOfCM ==
  InitCM /\ InitClient /\ DOMAIN mcpServers = {} /\ InitConnector /\ cnKind = "http" /\ InitWS
    /\ InitSSE /\ timeout = DefaultTimeoutMs /\ InitSession /\ InitAdapter /\ session.autoConnect

SpecCM == InitOfCM /\ [][NextCM]_vars

\* An MCPClient with its ServerManager: no ConnectionManager is involved
\* (BaseConnector._connectionManager is never assigned)
InitOfClient ==
  InitClient /\ InitCM /\ hasErrorListener = FALSE /\ InitConnector /\ cnKind = "http" /\ InitWS
    /\ InitSSE /\ timeout = DefaultTimeoutMs /\ InitSession /\ InitAdapter /\ session.autoConnect

SpecClient == InitOfClient /\ [][NextClient]_vars

\* createConnectorFromConfig on the configurations of every key set, reached
\* through createSession
InitOfConfig ==
  mcpServers \in [Names -> SUBSET Keys] /\ InitRegistry /\ InitCM /\ hasErrorListener = FALSE
    /\ InitConnector /\ cnKind = "http" /\ InitWS
    /\ InitSSE /\ timeout = DefaultTimeoutMs /\ InitSession /\ InitAdapter /\ session.autoConnect

NextConfig == \E t \in TaskIds, n \in Names, auto \in BOOLEAN : CreateSession(t, n, auto)

SpecConfig == InitOfConfig /\ [][NextConfig]_vars

\* A ServerManager over its MCPClient
SpecManager == InitOfClient /\ [][NextManager]_vars

\* An MCPClient used over a longer time
SpecRegistry == InitOfClient /\ [][NextRegistry]_vars

\* A ServerManager whose MCPClient nothing else uses
SpecServerManager == InitOfClient /\ [][NextServerManager]_vars

\* One connector of any subclass, used directly
InitOfConnector ==
  InitConnector /\ InitCM /\ hasErrorListener = FALSE /\ InitClient /\ DOMAIN mcpServers = {} /\ InitWS
    /\ InitSSE /\ timeout = DefaultTimeoutMs /\ InitSession /\ InitAdapter /\ session.autoConnect

SpecConnector == InitOfConnector /\ [][NextConnector]_vars

\* The tools of a LangChainAdapter over one connector of any subclass
SpecAdapter == InitOfConnector /\ [][NextAdapter]_vars

\* One MCPSession over a connector of any subclass, with either autoConnect
InitOfSession ==
  InitConnector /\ InitCM /\ hasErrorListener = FALSE /\ InitClient /\ DOMAIN mcpServers = {} /\ InitWS
    /\ InitSSE /\ timeout = DefaultTimeoutMs /\ InitSession /\ InitAdapter

SpecSession == InitOfSession /\ [][NextSession]_vars

\* A WebSocketConnectionManager; the client is an empty new MCPClient()
InitOfWS == InitOfCM

SpecWS == InitOfWS /\ [][NextWS]_vars

\* An SseConnectionManager with either timeout, observed by a listener or not
InitOfSSE ==
  InitCM /\ InitClient /\ DOMAIN mcpServers = {} /\ InitConnector /\ cnKind = "http" /\ InitWS
    /\ InitSSE /\ InitSession /\ InitAdapter /\ session.autoConnect

SpecSSE == InitOfSSE /\ [][NextSSE]_vars

\* ------------------------------------------------ claims, ConnectionManager

StartCalls == {i \in CallIds : calls[i].kind = "start"}
StopCalls == {j \in CallIds : calls[j].kind = "stop"}
Settled(p) == outcome[p] \notin {<<"none">>, <<"pending">>}
InvokedClose(j) == \E c \in CallIds : \E n \in 1..Len(closeCalls[c]) : closeCalls[c][n] = j

\* C1: start() calls issued while an attempt is still in flight do not invoke
\* the establish step again (one attempt in flight at most), settle exactly
\* when that attempt settles and observe that attempt's outcome.
C1_SingleFlight ==
  /\ Cardinality(establishing) <= 1
  /\ \A j \in StartCalls : \A p \in atIssue[j].est :
       /\ outcome[j] = <<"none">>
       /\ calls[j].pc = "done" <=> Settled(p)
       /\ calls[p].pc = "done" <=> Settled(p)
       /\ Settled(p) => calls[j].result = outcome[p] /\ calls[p].result = outcome[p]

\* C1 witness: three start() calls shared one attempt and all received its connection
C1_Witness ==
  \E j, k \in StartCalls :
    /\ j # k
    /\ atIssue[j].est = {1} /\ atIssue[k].est = {1}
    /\ calls[1].result = <<"conn", 1>>
    /\ calls[j].result = <<"conn", 1>>
    /\ calls[k].result = <<"conn", 1>>

\* C2: a stop() issued while a connect attempt p is pending invokes no close
\* while p is pending; if p fails the stop() completes without raising and
\* never invokes the close; if p succeeds, then by the time the stop() has
\* completed the close has been invoked on p's connection, and the stop()
\* invoked it on nothing else.  No close is ever invoked on a connection that
\* did not open.
C2_StopAwaitsConnectOutcome ==
  /\ \A c \in CallIds : closeCalls[c] # <<>> => outcome[c] = <<"conn", c>>
  /\ \A j \in StopCalls : \A p \in atIssue[j].est :
       /\ ~Settled(p) => ~InvokedClose(j)
       /\ (Settled(p) /\ outcome[p][1] = "err") =>
            /\ ~InvokedClose(j)
            /\ closeCalls[p] = <<>>
            /\ calls[j].pc = "done" => calls[j].result = <<"void">>
       /\ (Settled(p) /\ outcome[p][1] = "conn") =>
            /\ calls[j].pc = "done" => closeCalls[p] # <<>>
            /\ \A c \in CallIds \ {p} : \A n \in 1..Len(closeCalls[c]) : closeCalls[c][n] # j

\* C3: a stop() issued while a close is pending, and the second of two stop()
\* calls that waited on the same connect, does not complete before that close
\* has completed and invokes no second close.
C3_StopJoinsPendingClose ==
  /\ \A c \in CallIds : Len(closeCalls[c]) <= 1
  /\ \A j \in StopCalls : \A d \in atIssue[j].cls :
       calls[j].pc = "done" => Settled(d)
  /\ \A j, k \in StopCalls : \A p \in atIssue[j].est \cap atIssue[k].est :
       (closeCalls[p] = <<j>> /\ calls[k].pc = "done") => Settled(j)

\* C4: an establish step and a close step are never in flight together.
C4_NoEstablishDuringClose == ~(establishing # {} /\ closing # {})

\* C5: stop() never raises to its caller, also when the close failed.
C5_StopNeverRaises ==
  \A j \in StopCalls : calls[j].pc = "done" => calls[j].result = <<"void">>

\* C6: a failed attempt is propagated to every start() waiting on it and leaves
\* the manager retryable: no connection, not ready, no pending attempt; a
\* start() only ever reports the failure of an attempt that was in flight when
\* it was issued or that it began itself.
C6_FailureLeavesRetryable ==
  /\ error[1] = "connect" => connection = 0 /\ ~isReady /\ connectPromise = 0
  /\ \A i \in StartCalls :
       /\ calls[i].result[1] = "err" =>
            \E p \in atIssue[i].est \cup {i} : calls[i].result = <<"err", <<"connect", p>>>>
       /\ \A p \in atIssue[i].est :
            outcome[p][1] = "err" => calls[i].pc = "done" /\ calls[i].result = outcome[p]

\* C6 witness: an attempt failed for two waiting callers and the next start()
\* began a fresh attempt that produced a connection
C6_Witness ==
  \E i, k \in StartCalls :
    /\ atIssue[i].est = {1}
    /\ calls[1].result = <<"err", <<"connect", 1>>>>
    /\ calls[i].result = <<"err", <<"connect", 1>>>>
    /\ atIssue[k].est = {}
    /\ calls[k].result = <<"conn", k>>

\* ------------------------------------------- claims, MCPClient/ServerManager

Suspended(t) == tasks[t].pc \notin {"idle", "done"}
CreateSessionFailures == {"serverNotFound", "connectorError", "connectError"}

\* C7: in every state reached through the client's own operations, also while
\* an operation is suspended at an await, every name in activeSessions is a key
\* of sessions.
C7_ActiveSessionsRegistered ==
  \A k \in 1..Len(activeSessions) : sessions[activeSessions[k]] # 0

\* C7 witness: the close started by removeServer is suspended, the removed name
\* is already out of activeSessions and still in sessions, another name is active
C7_Witness ==
  \E t \in TaskIds :
    /\ tasks[t].op = "removeServer" /\ tasks[t].pc = "cl_disconnect"
    /\ sessions[tasks[t].name] # 0
    /\ Len(activeSessions) = 1
    /\ activeSessions[1] # tasks[t].name

\* C8: the ServerManager's active server, when set, names a session that is
\* registered in the client's sessions.
C8_ActiveServerRegistered == activeServer # "" => sessions[activeServer] # 0

\* C9: createSession for a name missing from the registry fails with the
\* server-not-found error, one whose configuration yields no connector fails
\* with the connector error, and one whose connect is awaited either fails or
\* constructs a session; every step that begins or fails a createSession
\* leaves sessions, activeSessions and the registry as they were.
C9_FailedCreateSessionChangesNothing ==
  /\ [](\A n \in Names, auto \in BOOLEAN :
          LET b == CsBegin([NoTask EXCEPT !.op = "createSession"], n, auto) IN
            /\ n \notin DOMAIN mcpServers =>
                 b.pc = "cs_failed" /\ b.result = "serverNotFound"
            /\ (n \in DOMAIN mcpServers /\ mcpServers[n] = {"command"}) =>
                 b.pc = "cs_failed" /\ b.result = "connectorError")
  /\ [][\A t \in TaskIds :
          /\ (tasks[t].pc = "idle" /\ tasks'[t].op = "createSession") =>
               UNCHANGED <<sessions, activeSessions, mcpServers>>
          /\ (tasks[t].pc # "done" /\ tasks'[t].pc = "done"
                /\ tasks'[t].result \in CreateSessionFailures) =>
               UNCHANGED <<sessions, activeSessions, mcpServers>>
          /\ (tasks[t].op = "createSession" /\ tasks[t].pc = "cs_connect"
                /\ tasks'[t] # tasks[t]) =>
               \/ tasks'[t].pc = "done" /\ tasks'[t].result = "connectError"
               \/ nSess' = nSess + 1]_vars

\* C9 witness: with one session registered and active, a createSession has
\* failed while connecting
C9_Witness ==
  /\ \E n \in Names : sessions[n] # 0 /\ Len(activeSessions) = 1
  /\ \E t \in TaskIds : tasks[t].pc = "done" /\ tasks[t].result = "connectError"

\* C10: a step that removes the configuration of a name whose session is
\* registered and connected leaves that session unregistered or its connector
\* disconnected: the session is closed before the configuration is deleted.
C10_RemoveServerClosesFirst ==
  [][\A n \in Names :
       (n \in DOMAIN mcpServers /\ n \notin DOMAIN mcpServers'
          /\ sessions[n] # 0 /\ sess[sessions[n]].connected) =>
         (sessions'[n] = 0 \/ ~sess'[sessions'[n]].connected)]_vars

InActive(q, n) == \E k \in 1..Len(q) : q[k] = n

\* C11: removeServer(name) on a name with a session: when the call returns
\* (the step that starts its un-awaited close) the registry and activeSessions
\* hold name no more and every other configuration is as it was; when that
\* close settles, whatever the disconnect's outcome, sessions has no entry for
\* name.
C11_RemoveServerWithSession ==
  [][\A t \in TaskIds :
       /\ (tasks[t].pc = "idle" /\ tasks'[t].op = "removeServer") =>
            LET n == tasks'[t].name IN
              /\ sessions[n] # 0
              /\ n \notin DOMAIN mcpServers'
              /\ ~InActive(activeSessions', n)
              /\ \A m \in Names \ {n} :
                   /\ m \in DOMAIN mcpServers <=> m \in DOMAIN mcpServers'
                   /\ m \in DOMAIN mcpServers => mcpServers'[m] = mcpServers[m]
       /\ (tasks[t].op = "removeServer" /\ tasks'[t].pc = "done") =>
            /\ sessions'[tasks[t].name] = 0
            /\ tasks'[t].result = "removed"]_vars

\* C11 witness: the close started by removeServer has settled although the
\* disconnect failed (the transport client is still open); the name has no
\* session and no configuration, the other server is still configured
C11_Witness ==
  \E t \in TaskIds, x \in SessIds, n \in Names :
    /\ tasks[t].result = "removed"
    /\ sess[x].made /\ ~sess[x].connected /\ ~sess[x].hasClient /\ sess[x].clientOpen
    /\ \A m \in Names : sessions[m] = 0
    /\ DOMAIN mcpServers = Names \ {n}

Range(q) == {q[k] : k \in 1..Len(q)}

\* C12: closeSession never raises; when the close of a name settles, whatever
\* the disconnect's outcome, the name is in neither sessions nor activeSessions;
\* for a name without a session it returns at once and changes nothing.
\* closeAllSessions closes every name registered when it is called, and when it
\* completes with no session registered meanwhile, sessions and activeSessions
\* are empty.
C12_CloseSessionNeverRaises ==
  /\ [](\A n \in Names :
          LET b == ClBegin([NoTask EXCEPT !.op = "closeSession"], n, sessions, sess) IN
            IF sessions[n] = 0 THEN b.pc = "cl_noop"
            ELSE b.pc = "cl_disconnect" /\ b.name = n)
  /\ [][\A t \in TaskIds :
          /\ (tasks[t].pc = "cl_disconnect" /\ tasks'[t] # tasks[t]) =>
               /\ sessions'[tasks[t].name] = 0
               /\ ~InActive(activeSessions', tasks[t].name)
               /\ tasks'[t].pc = "done" => tasks'[t].result \in {"closed", "removed", "closedAll"}
          /\ (tasks[t].pc = "idle" /\ tasks'[t].pc = "done"
                /\ tasks'[t].result \in {"closed", "closedAll"}) =>
               UNCHANGED <<sessions, activeSessions, sess, mcpServers>>
          /\ (tasks[t].pc = "idle" /\ tasks'[t].op = "closeAllSessions") =>
               {tasks'[t].name} \cup Range(tasks'[t].todo) = {n \in Names : sessions[n] # 0}
          /\ (tasks[t].pc # "done" /\ tasks'[t].pc = "done"
                /\ tasks'[t].result = "closedAll"
                /\ (tasks[t].pc = "idle" \/ t \in undisturbed)) =>
               /\ \A n \in Names : sessions'[n] = 0
               /\ activeSessions' = <<>>]_vars

\* C12 witness: closeAllSessions has completed over two registered sessions
\* with no session registered meanwhile, one disconnect having failed
C12_Witness ==
  /\ \E t \in TaskIds : tasks[t].pc = "done" /\ tasks[t].result = "closedAll"
  /\ \A x \in SessIds : sess[x].made /\ ~sess[x].connected /\ ~sess[x].hasClient
  /\ \E x \in SessIds : sess[x].clientOpen
  /\ \E x \in SessIds : ~sess[x].clientOpen

Count(q, n) == Cardinality({k \in 1..Len(q) : q[k] = n})

\* C13: when createSession(name, true) has built and connected its connector
\* and the session's initialize() then fails (the session ends up without a
\* tool list), createSession does not raise: it returns the session, which is
\* registered under name, and name is in activeSessions exactly once.
C13_InitFailureStillRegisters ==
  [][\A t \in TaskIds :
       (tasks[t].op = "createSession"
          /\ tasks[t].pc \in {"cs_initConnect", "cs_listTools"}
          /\ tasks'[t].pc = "done"
          /\ ~sess'[tasks[t].sid].tools) =>
         /\ tasks'[t].result = "ok"
         /\ sessions'[tasks[t].name] = tasks[t].sid
         /\ Count(activeSessions', tasks[t].name) = 1]_vars

\* C13 witness: the only session constructed was returned by a createSession
\* whose initialize() failed after its connector had connected
C13_Witness ==
  \E t \in TaskIds, n \in Names :
    /\ nSess = 1
    /\ tasks[t].pc = "done" /\ tasks[t].result = "ok"
    /\ sessions[n] = 1 /\ sess[1].connected /\ ~sess[1].tools
    /\ activeSessions = <<n>>

\* createSession(name) fails before its first await: unknown name or no
\* connector for the configuration
FailsAtOnce(n) == ~HasServer(n) \/ ConnectorKind(CfgOf(n)) = "none"

CreateAllFails(t) ==
  tasks[t].op = "createAllSessions" /\ tasks[t].pc = "cs_connect"
    /\ tasks'[t] # tasks[t] /\ nSess' = nSess

\* C14 as stated: a name whose createSession failed inside createAllSessions is
\* absent from the result and from sessions and activeSessions.
C14_FailedNamesAbsent ==
  [][\A t \in TaskIds :
       CreateAllFails(t) =>
         /\ tasks[t].name \notin tasks'[t].res
         /\ sessions'[tasks[t].name] = 0
         /\ ~InActive(activeSessions', tasks[t].name)]_vars

\* C14 amended: createAllSessions attempts createSession for every name
\* configured when it is called, whatever failed before, never raises, and its
\* result holds exactly the names whose createSession succeeded (each of them
\* registered and active at that moment); for a name that failed it leaves
\* sessions and activeSessions as they were.
C14_BestEffortOverEveryName ==
  [][\A t \in TaskIds :
       /\ (tasks[t].pc = "idle"
             /\ (tasks'[t].op = "createAllSessions" \/ tasks'[t].result = "okAll")) =>
            /\ tasks'[t].res = {}
            /\ \A n \in DOMAIN mcpServers :
                 n = tasks'[t].name \/ n \in Range(tasks'[t].todo) \/ FailsAtOnce(n)
       /\ (tasks[t].op = "createAllSessions" /\ tasks'[t] # tasks[t]) =>
            /\ tasks'[t].pc = "done" => tasks'[t].result = "okAll"
            /\ \A m \in Range(tasks[t].todo) :
                 m = tasks'[t].name \/ m \in Range(tasks'[t].todo) \/ FailsAtOnce(m)
            /\ IF CreateAllFails(t)
                 THEN /\ tasks'[t].res = tasks[t].res
                      /\ tasks[t].name \notin tasks'[t].res
                      /\ UNCHANGED <<sessions, activeSessions>>
               ELSE IF sessions' # sessions
                 THEN /\ tasks'[t].res = tasks[t].res \cup {tasks[t].name}
                      /\ sessions'[tasks[t].name] \notin {0, sessions[tasks[t].name]}
                      /\ InActive(activeSessions', tasks[t].name)
               ELSE tasks'[t].res = tasks[t].res]_vars

\* C14 witness: createAllSessions over two configured names has returned with
\* one of them only, the other's connect having failed
C14_Witness ==
  \E t \in TaskIds, n \in Names :
    /\ tasks[t].pc = "done" /\ tasks[t].result = "okAll" /\ tasks[t].res = {n}
    /\ DOMAIN mcpServers = Names
    /\ \A m \in Names : ConnectorKind(mcpServers[m]) # "none"
    /\ sessions[n] # 0
    /\ \A m \in Names \ {n} : sessions[m] = 0

\* ------------------------------------------------------ claims, Connector

\* connect() calls that have resolved
ConnectsResolved == {c \in OpIds : ops[c].op = "connect" /\ ops[c].result = "ok"}

\* connect() calls that are pending
ConnectsPending == {c \in OpIds : ops[c].op = "connect" /\ ops[c].pc = "pending"}

\* the step is the call of `op` as call o
Calls(o, op) == ops[o].op = "none" /\ ops'[o].op = op

\* C15: initialize() called while no connect() has resolved (none called,
\* one pending, or all failed) fails with the not-connected error, starts no
\* tool listing and leaves the tool cache as it was
C15_InitializeBeforeConnectFails ==
  [][\A o \in OpIds :
       (Calls(o, "initialize") /\ ConnectsResolved = {}) =>
         /\ ops'[o].pc = "done" /\ ops'[o].result = "notConnected"
         /\ connector'.tools = connector.tools]_vars

\* C16: disconnect() called while no connect() has resolved and none is
\* pending (none called, or all failed) is a no-op: it returns without
\* error, closes no client and changes no field of the connector
C16_DisconnectWithoutConnectIsNoop ==
  [][\A o \in OpIds :
       (Calls(o, "disconnect") /\ ConnectsResolved = {} /\ ConnectsPending = {}) =>
         /\ ops'[o].pc = "done" /\ ops'[o].result = "noop"
         /\ connector' = connector]_vars

\* the most recent event on the connector is the completion of a disconnect()
AfterDisconnect ==
  /\ log # <<>>
  /\ log[Len(log)][1] = "settle"
  /\ ops[log[Len(log)][2]].op = "disconnect"

\* C17: disconnect() called on a new connector, or next after a disconnect()
\* has completed (whether that one cleaned up or not), is a no-op: it
\* returns at once, starts no cleanup and changes no field of the connector
C17_DisconnectIdempotent ==
  [][\A o \in OpIds :
       (Calls(o, "disconnect") /\ (log = <<>> \/ AfterDisconnect)) =>
         /\ ops'[o].pc = "done" /\ ops'[o].result = "noop"
         /\ connector' = connector]_vars

\* a disconnect() of a connected connector completed its cleanup and the
\* next call, a second disconnect(), has returned
C17_Witness ==
  \E d1, d2 \in OpIds :
    /\ ops[d1].op = "disconnect" /\ ops[d1].result = "disconnected"
    /\ ops[d2].op = "disconnect" /\ ops[d2].result = "noop"
    /\ Len(log) >= 3
    /\ SubSeq(log, Len(log) - 2, Len(log)) =
         << <<"settle", d1>>, <<"disconnect", d2>>, <<"settle", d2>> >>

C19_EstablishSettlesOnFirstEvent ==
  [][\A p \in CallIds :
       /\ (sock[p] = "connecting" /\ sock'[p] # "connecting") =>
            outcome'[p] = IF sock'[p] = "open" THEN <<"conn", p>>
                                              ELSE <<"err", <<"connect", p>>>>
       /\ (calls[p].kind = "start" /\ outcome[p] \notin {<<"none">>, <<"pending">>}) =>
            outcome'[p] = outcome[p]]_vars

\* ------------------------------------------ claims, SseConnectionManager

\* C20: when the connection timeout expires while the establishment is
\* pending, the pending start() fails and the manager is left disconnected
C20_TimeoutFailsPendingConnect ==
  [][\A p \in CallIds :
       (p \in establishing /\ elapsed[p] < timeout /\ elapsed'[p] >= timeout) =>
         /\ outcome'[p][1] = "err"
         /\ connection' = 0 /\ ~isReady']_vars

\* ------------------------------------------------------ claims, MCPSession

\* the step completes call s of the session as `op` with result r
Completes(s, op, r) ==
  sops[s].pc # "done" /\ sops'[s] = SopDone(op, r, sops'[s].ret)

\* C21: when connect() completes successfully the connector reports
\* connected, whatever its variant, and an initialize() or callTool() made
\* while it still does is never rejected as not connected
C21_ConnectedAfterConnect ==
  [][\A s \in SopIds :
       /\ Completes(s, "connect", "ok") => connector'.connected
       /\ (sops[s].op = "none" /\ sops'[s].op \in {"initialize", "callTool"}
             /\ connector.connected) =>
            /\ sops'[s].result # "notConnected"
            /\ sops'[s].sub # 0 => ops'[sops'[s].sub].result # "notConnected"]_vars

\* the step is the call of initialize() or callTool() as call s
CallsDelegating(s) == sops[s].op = "none" /\ sops'[s].op \in {"initialize", "callTool"}

\* C22: initialize() and callTool() on an unconnected session with
\* autoConnect call the connector's connect() first, and hand the operation
\* to the connector only while it reports connected; with autoConnect off
\* they fail as not connected and call nothing; and when initialize()
\* completes successfully the session's tools are the connector's tools
C22_AutoConnectThenDelegate ==
  [][\A s \in SopIds :
       /\ (CallsDelegating(s) /\ ~connector.connected /\ session.autoConnect) =>
            /\ nOps' = nOps + 1 /\ ops'[nOps'].op = "connect"
            /\ sops'[s].pc = "connect"
       /\ (sops[s].pc # "delegated" /\ sops'[s].pc = "delegated") =>
            /\ connector.connected
            /\ ops'[sops'[s].sub].op = sops'[s].op
       /\ (CallsDelegating(s) /\ ~connector.connected /\ ~session.autoConnect) =>
            /\ sops'[s].pc = "done" /\ sops'[s].result = "notConnected"
            /\ ops' = ops
       /\ Completes(s, "initialize", "ok") =>
            connector'.tools /\ session'.tools = fetched']_vars

\* C23: discoverTools() never fails: on an unconnected session it returns
\* the empty list, on a connected one whose connector holds a tool list it
\* returns that list, and on a connected one whose connector holds none yet
\* it still returns a list
C23_DiscoverToolsNeverFails ==
  [][\A s \in SopIds :
       (sops[s].op = "none" /\ sops'[s].op = "discoverTools") =>
         /\ sops'[s].pc = "done" /\ sops'[s].result = "ok"
         /\ ~connector.connected => sops'[s].ret = <<>>
         /\ (connector.connected /\ connector.tools) => sops'[s].ret = fetched]_vars

\* C24: when an initialize() completes successfully on a connected session,
\* the connector's and the session's tools are exactly the list that the
\* most recent fetch returned, however many fetches came before
C24_InitializeReplacesTools ==
  [][\A s \in SopIds :
       (Completes(s, "initialize", "ok") /\ connector'.connected) =>
         /\ connector'.tools /\ fetched' = returned'
         /\ session'.tools = returned']_vars

\* two initialize() calls have fetched and completed on a session that is
\* still connected, the second fetch returning one tool
C24_Witness ==
  /\ Cardinality({o \in OpIds : ops[o].op = "initialize" /\ ops[o].result = "ok"}) = 2
  /\ Cardinality({s \in SopIds : sops[s] = SopDone("initialize", "ok", <<>>)}) = 2
  /\ connector.connected /\ connector.tools
  /\ session.tools = <<"t1">> /\ returned = <<"t1">>

\* ----------------------------------------------- claims, connector inference

\* The variant the precedence Process > Socket > Stream gives a key set
Precedence(c) ==
  CASE {"command", "args"} \subseteq c -> "stdio"
    [] ~({"command", "args"} \subseteq c) /\ "ws_url" \in c -> "ws"
    [] ~({"command", "args"} \subseteq c) /\ "ws_url" \notin c /\ "url" \in c -> "http"
    [] OTHER -> "none"

C26_UnknownNameChangesNothing ==
  [][\A t \in TaskIds, n \in Names :
       (ConnectToServer(t, n) /\ n \notin DOMAIN mcpServers) =>
         /\ tasks'[t].pc = "done"
         /\ tasks'[t].result = "notFound"
         /\ tasks'[t].res = DOMAIN mcpServers
         /\ UNCHANGED <<activeServer, serverToolsCache, sessions, activeSessions, sess,
                        mcpServers>>]_vars

\* with server a active and b not configured, connectToServer("b") returned
\* not-found naming a
C26_Witness ==
  /\ DOMAIN mcpServers = {"a"}
  /\ activeServer = "a"
  /\ sessions["a"] # 0
  /\ tasks[2].pc = "done" /\ tasks[2].result = "notFound" /\ tasks[2].res = {"a"}

\* C27: connectToServer(a) while a is the active server returns the
\* already-connected status and has no side effect: no session is created, no
\* tool list is fetched, the active server and the tool cache stay as they are
C27_AlreadyActiveIsNoop ==
  [][\A t \in TaskIds, n \in Names :
       (ConnectToServer(t, n) /\ activeServer = n) =>
         /\ tasks'[t].pc = "done"
         /\ tasks'[t].result = "already"
         /\ UNCHANGED <<activeServer, serverToolsCache, fetches, sessions, activeSessions,
                        sess, nSess>>]_vars

\* C28: disconnectFromServer only clears the active server: afterwards
\* getActiveServer reports that none is active and getActiveServerTools
\* returns no tools, while the sessions and activeSessions of the client and
\* the tool cache are as before; with no active server nothing changes
C28_DisconnectIsSelectionChange ==
  [][DisconnectFromServer =>
       /\ GetActiveServer' = <<"none">>
       /\ GetActiveServerTools' = "empty"
       /\ UNCHANGED <<sessions, activeSessions, sess, serverToolsCache>>
       /\ activeServer = "" => UNCHANGED vars]_vars

\* connectToServer("a") succeeded with tools cached, and the only call since
\* was disconnectFromServer: no server is active, the session and the cache
\* entry of a are still there
C28_Witness ==
  /\ tasks[1].pc = "done" /\ tasks[1].result = "connected"
  /\ nTasks = 1
  /\ activeServer = ""
  /\ sessions["a"] # 0 /\ sess[sessions["a"]].connected
  /\ activeSessions = <<"a">>
  /\ serverToolsCache["a"] = "tools"

\* The sessions created so far for server n
CreatedFor(n) == {x \in SessIds : sess[x].made /\ sess[x].name = n}

\* Server n was connected before: a connectToServer for it has succeeded
\* (it left a session and a cache entry)
ConnectedBefore(n) == sessions[n] # 0 /\ serverToolsCache[n] # "none"

\* C29: over the operations of the ServerManager alone, no server name ever
\* has more than one session created for it or its tools fetched more than
\* once, and a connectToServer for a server that was connected before creates
\* no session and fetches no tools
C29_NoReconnectChurn ==
  [][/\ \A n \in Names : Cardinality(CreatedFor(n)') <= 1 /\ fetches'[n] <= 1
     /\ \A t \in TaskIds, n \in Names :
          (ConnectToServer(t, n) /\ ConnectedBefore(n)) =>
            /\ tasks'[t].pc = "done"
            /\ UNCHANGED <<sess, nSess, sessions, fetches, serverToolsCache>>]_vars

\* Call t of listServers returns in this step
ListingReturned(t) ==
  /\ tasks[t].pc # "done"
  /\ tasks'[t].pc = "done"
  /\ tasks'[t].result \in {"listed", "noServers"}

\* C30: the listing listServers returns has one entry for every name that was
\* configured when it was called, each name once, each entry with its own
\* tools line; a name whose session could not be created or whose tools could
\* not be found is reported as unavailable in its own entry and the names
\* after it are still handled: when the call returns every listed name has a
\* cache entry or no session
C30_ListingCoversEveryName ==
  [][\A t \in TaskIds :
       ListingReturned(t) =>
         LET r == tasks'[t] IN
           /\ r.result = "noServers" <=> r.snap = <<>>
           /\ {r.snap[i] : i \in 1..Len(r.snap)} = DOMAIN mcpServers
           /\ Len(r.snap) = Cardinality(DOMAIN mcpServers)
           /\ Len(r.listing) = Len(r.snap)
           /\ \A i \in 1..Len(r.listing) :
                /\ r.listing[i].name = r.snap[i]
                /\ r.listing[i].tools \in {"names", "unavailable"}
                /\ serverToolsCache'[r.snap[i]] # "none" \/ sessions'[r.snap[i]] = 0]_vars

\* a listing of b, then a: the session for b could not be created and b is
\* reported as unavailable, after which the tools of a were still discovered
C30_Witness ==
  /\ tasks[1].pc = "done" /\ tasks[1].result = "listed"
  /\ tasks[1].listing = <<[name |-> "b", active |-> FALSE, tools |-> "unavailable"],
                          [name |-> "a", active |-> FALSE, tools |-> "names"]>>
  /\ sessions["b"] = 0 /\ serverToolsCache["b"] = "none"
  /\ sessions["a"] # 0 /\ serverToolsCache["a"] = "tools"

\* ---------------------------------------------------- claims, adapter tools

\* Run r of an adapter tool completes in this step
RunCompletes(r) == runs[r].pc = "callTool" /\ runs'[r].pc = "done"

\* C31: a call of an adapter tool whose remote result reports isError does
\* not return normally: it completes by throwing
C31_ToolErrorIsThrown ==
  [][\A r \in RunIds :
       (RunCompletes(r) /\ ops[runs[r].sub].result = "ok" /\ remote[runs[r].sub].isError) =>
         runs'[r].result[1] = "throw"]_vars

\* ------------------------------------------- claims, configuration registry

\* Every registered configuration other than that of n is as it was
OthersKept(n) ==
  \A m \in Names \ {n} :
    /\ m \in DOMAIN mcpServers <=> m \in DOMAIN mcpServers'
    /\ m \in DOMAIN mcpServers => mcpServers'[m] = mcpServers[m]

\* C32: after addServer(n, c) getServerNames() contains n and the
\* configuration under n is c; after removeServer(n) for a registered n the
\* configuration of n is gone; either way every other registered
\* configuration is unchanged
C32_RegistryRoundTrip ==
  [][\A n \in Names :
       /\ \A c \in Cfgs :
            AddServer(n, c) =>
              /\ n \in ServerNames'
              /\ CfgOf(n)' = c
              /\ OthersKept(n)
       /\ RemoveServer(n) =>
            /\ n \notin ServerNames'
            /\ OthersKept(n)]_vars

\* b was registered and had a session when it was removed, and a was
\* registered again with another configuration: the names are exactly a
C32_Witness ==
  /\ ServerNames = {"a"}
  /\ CfgOf("a") = {"command"}
  /\ sessions["b"] # 0

\* ------------------------------------------------- claims, session release

\* C33: when closeSession completes, the transport client that createSession
\* connected for the session has had its close invoked and the connector has
\* let go of it, whatever state the session was in
C33_CloseReleasesClient ==
  [][\A t \in TaskIds, ok \in BOOLEAN :
       ClDisconnect(t, ok) => ~sess'[tasks[t].sid].hasClient]_vars

\* ------------------------------------------------ claims, connector reuse

\* the place of entry e in the history, 0 when it is not there
At(e) == IF \E k \in 1..Len(log) : log[k] = e
           THEN CHOOSE k \in 1..Len(log) : log[k] = e
           ELSE 0

\* A disconnect() has cleaned the connector up, a connect() called after it
\* has resolved, and no disconnect() was called since
Reconnected ==
  \E d, c \in OpIds :
    /\ ops[d].op = "disconnect" /\ ops[d].result = "disconnected"
    /\ ops[c].op = "connect" /\ ops[c].result = "ok"
    /\ At(<<"settle", d>>) < At(<<"connect", c>>)
    /\ \A e \in OpIds : e > c => ops[e].op # "disconnect"

\* C34: a connector that was disconnected and then connected again with
\* success can be used: initialize() and callTool() find it connected, they
\* are not rejected with the not-connected error
C34_UsableAfterReconnect == Reconnected => ~NotConnected(connector)

\* ------------------------------------- claims, ConnectionManager resources

\* The attempts that established a connection
Established == {p \in CallIds : outcome[p] = <<"conn", p>>}

\* C35: in every state reached by start() and stop() calls in any order, the
\* close has been invoked at most once on each connection and only on
\* connections that an establish step returned, and 'ready' has been emitted
\* once for each establishment
C35_CloseOncePerConnection ==
  /\ \A c \in CallIds :
       /\ Len(closeCalls[c]) <= 1
       /\ closeCalls[c] # <<>> => c \in Established
  /\ emitted.ready = Cardinality(Established)

\* two connections were established one after the other and each was closed
\* by one stop()
C35_Witness ==
  /\ Established = {1, 3}
  /\ closeCalls[1] = <<2>> /\ closeCalls[3] = <<4>>
  /\ emitted.ready = 2
  /\ closing = {}

\* ---------------------------------------------- claims, connector tool cache

\* C36: in every state of a connector the tool cache is populated only while
\* the connector is connected; after a disconnect() has completed getTools()
\* throws until an initialize() that follows a new connect() has fetched
C36_ToolsOnlyWhileConnected == ~GetToolsThrows => ~NotConnected(connector)

\* ---------------------------------------------- claims, session registry

\* createSession is still at work on session x: it has built it and has not
\* yet registered it
BeingCreated(x) ==
  \E t \in TaskIds : tasks[t].sid = x /\ tasks[t].pc \in {"cs_initConnect", "cs_listTools"}

\* C37: every session createSession has created, that is connected and has
\* not been closed, is the one registered in sessions under its name; no
\* session stays connected and unreachable
C37_NoOrphanSession ==
  \A x \in SessIds :
    sess[x].made /\ sess[x].connected /\ sess[x].hasClient /\ ~BeingCreated(x)
      => sessions[sess[x].name] = x

\* C38: when the disconnect of a closeSession(name) completes while another,
\* newer session is registered under the name, the newer session stays
\* registered in sessions and the name stays in activeSessions
C38_CloseRemovesOnlyItsOwn ==
  [][\A t \in TaskIds, ok \in BOOLEAN :
       ClDisconnect(t, ok) /\ sessions[tasks[t].name] \notin {0, tasks[t].sid}
         => /\ sessions'[tasks[t].name] = sessions[tasks[t].name]
            /\ IndexOf(activeSessions', tasks[t].name) # 0]_vars

\* ---------------------------------------------- claims, server selection

\* C39: the step in which a connectToServer(name) for a registered name fails
\* to get or create its session leaves the active server and the tool cache
\* as they were
C39_FailedConnectKeepsSelection ==
  [][\A t \in TaskIds :
       /\ tasks[t].pc # "done"
       /\ tasks'[t].pc = "done" /\ tasks'[t].result = "failed"
       => activeServer' = activeServer /\ serverToolsCache' = serverToolsCache]_vars

\* C40: the tool cache of the ServerManager holds an entry for a name only
\* when a tool discovery for that name succeeded; a discovery that failed
\* leaves no entry, so that the next listServers() or connectToServer()
\* discovers again
C40_CacheOnlySuccessfulDiscovery ==
  \A n \in Names : serverToolsCache[n] \in {"none", "tools"}

====
